---- MODULE Spec2Model ----
(***************************************************************************)
(* rc-slice2: ArcSlice / RcSlice, a [start, end) view over a shared,      *)
(* reference-counted container (src/src/arc.rs, src/src/rc.rs) and the    *)
(* container capability RcSliceContainer (src/src/lib.rs).                *)
(*                                                                         *)
(* Indices are Rust's: 0-based, half-open.  A container's elements are a  *)
(* TLA+ sequence, so the range s..e is SubSeq(data, s + 1, e).            *)
(***************************************************************************)
EXTENDS Integers, Sequences, FiniteSets, TLC

\* ------------------------------------------------------------------ bounds

\* Longest container the caller builds.
MaxLen == 2

\* Width of usize in the model; usize::MAX is 2^UsizeBits - 1.
UsizeBits == 3

\* Inline capacity N of SmallVec<[T; N]> (a type parameter of the caller).
InlineCap == 1

UsizeMax == (2 ^ UsizeBits) - 1

\* View slots (variables of the caller that hold an ArcSlice).
ViewIds == {1, 2, 3}

\* Allocations (ArcInner blocks) that can exist at one time.
AllocIds == {1, 2, 3, 4, 5}

\* Container types T of ArcSlice<T>.
Kinds == {"boxed", "vec", "smallvec"}

\* usize arguments the caller passes: in range, one past, and the extremes.
ArgVals == (0 .. (MaxLen + 1)) \cup {UsizeMax}

\* ----------------------------------------------------------------- helpers

Min(a, b) == IF a <= b THEN a ELSE b

Max(a, b) == IF a >= b THEN a ELSE b

None == [some |-> FALSE, val |-> <<>>]

Some(x) == [some |-> TRUE, val |-> x]

\* usize::saturating_add
SaturatingAddWrapping(x, y) == (x + y) % (UsizeMax + 1)

SaturatingAdd(x, y) == IF x + y > UsizeMax THEN UsizeMax ELSE x + y

\* usize::saturating_sub
WrappingSub(x, y) == (x - y) % (UsizeMax + 1)

SaturatingSub(x, y) == IF y > x THEN 0 ELSE x - y

\* usize::checked_add: None on overflow
WrappingAdd(x, y) == Some((x + y) % (UsizeMax + 1))

CheckedAdd(x, y) == IF x + y > UsizeMax THEN None ELSE Some(x + y)

\* usize::checked_sub: None on underflow
CheckedSub(x, y) == IF y > x THEN None ELSE Some(x - y)

\* A RangeBounds<usize> value: its start_bound() and end_bound().
Bound(kind, x) == [kind |-> kind, x |-> x]

Unbounded == Bound("Unbounded", 0)

Included(x) == Bound("Included", x)

Excluded(x) == Bound("Excluded", x)

RangeOf(sb, eb) == [sb |-> sb, eb |-> eb]

\* a..b
Range(a, b) == RangeOf(Included(a), Excluded(b))

\* a..=b
RangeInclusive(a, b) == RangeOf(Included(a), Included(b))

\* ..
RangeFull == RangeOf(Unbounded, Unbounded)

\* ------------------------------------------------- container capability

\* The element the caller writes through a mutable slice.
Written == 0

\* The container the caller builds: L distinct elements.
FreshData(L) == [i \in 1 .. L |-> 10 + i]

\* RcSliceContainer::IS_SHRINKABLE
IsShrinkableAlways(kind) == TRUE

IsShrinkable(kind) == kind \in {"vec", "smallvec"}

\* RcSliceContainer::len
ContainerLen(c) == Len(c.data)

\* RcSliceContainer::get (slice::get): None when the range is out of bounds
ContainerGetNoCheck(c, s, e) == Some(SubSeq(c.data, s + 1, e))

ContainerGet(c, s, e) ==
    IF s <= e /\ e <= Len(c.data) THEN Some(SubSeq(c.data, s + 1, e)) ELSE None

\* Vec::truncate
Truncate(data, n) == IF n < Len(data) THEN SubSeq(data, 1, n) ELSE data

\* Vec::retain(|_| { let ret = keep_range.contains(&cur_index); cur_index += 1; ret })
RECURSIVE Retain(_, _, _, _)
Retain(data, cur_index, s, e) ==
    IF data = <<>> THEN <<>>
    ELSE LET rest == Retain(Tail(data), cur_index + 1, s, e)
         IN  IF s <= cur_index /\ cur_index < e
             THEN <<Head(data)>> \o rest
             ELSE rest

\* Vec::shrink_container_to_range: the container afterwards and the range returned
VecShrinkNoTruncate(c, s, e) ==
    LET kept == Retain(c.data, 0, s, e)
    IN  [c |-> [c EXCEPT !.data = kept],
         range |-> Some([start |-> 0, end |-> Len(kept)])]

VecShrinkKeepPrefix(c, s, e) ==
    LET kept == Truncate(c.data, e)
    IN  [c |-> [c EXCEPT !.data = kept],
         range |-> Some([start |-> 0, end |-> Len(kept)])]

VecShrinkReportKeepRange(c, s, e) ==
    LET kept == Retain(Truncate(c.data, e), 0, s, e)
    IN  [c |-> [c EXCEPT !.data = kept],
         range |-> Some([start |-> s, end |-> e])]

VecShrinkContainerToRange(c, s, e) ==
    LET kept == Retain(Truncate(c.data, e), 0, s, e)
    IN  [c |-> [c EXCEPT !.data = kept],
         range |-> Some([start |-> 0, end |-> Len(kept)])]

\* SmallVec::shrink_container_to_range: nothing to do while the data is inline;
\* shrink_to_fit moves the data back inline when it fits.
SmallVecShrinkContainerToRange(c, s, e) ==
    IF ~c.spilled
    THEN [c |-> c, range |-> None]
    ELSE LET kept == Retain(Truncate(c.data, e), 0, s, e)
         IN  [c |-> [c EXCEPT !.data = kept, !.spilled = Len(kept) > InlineCap],
              range |-> Some([start |-> 0, end |-> Len(kept)])]

ShrinkContainerToRange(kind, c, s, e) ==
    IF kind = "vec" THEN VecShrinkContainerToRange(c, s, e)
    ELSE SmallVecShrinkContainerToRange(c, s, e)

\* T::default(): the empty container
DefaultContainer == [data |-> <<>>, spilled |-> FALSE]

\* ------------------------------------------------------------ Arc<T> (std)

\* An ArcInner block: the strong count, the number of Weak handles, the container.
FreeAlloc == [strong |-> 0, weak |-> 0, data |-> <<>>, spilled |-> FALSE]

IsFree(h, a) == h[a].strong = 0 /\ h[a].weak = 0

HasFree(h) == \E a \in AllocIds : IsFree(h, a)

\* The block the allocator hands out (which free block it is cannot be observed).
NewAllocId(h) == CHOOSE a \in AllocIds : IsFree(h, a) /\ \A b \in AllocIds : IsFree(h, b) => a <= b

\* The block of a temporary that is freed before the call returns.
PlaceholderId(h) == CHOOSE a \in AllocIds : IsFree(h, a) /\ \A b \in AllocIds : IsFree(h, b) => a >= b

\* Arc::new(container)
ArcNew(h, a, c) == [h EXCEPT ![a] = [strong |-> 1, weak |-> 0, data |-> c.data, spilled |-> c.spilled]]

\* Arc::clone
ArcCloneNoCount(h, a) == h

ArcClone(h, a) == [h EXCEPT ![a].strong = @ + 1]

\* Drop for Arc: the container is dropped with the last strong handle
ArcDrop(h, a) ==
    IF h[a].strong = 1
    THEN [h EXCEPT ![a] = [strong |-> 0, weak |-> @.weak, data |-> <<>>, spilled |-> FALSE]]
    ELSE [h EXCEPT ![a].strong = @ - 1]

\* Arc::get_mut succeeds iff there is no other Arc and no Weak (Arc::is_unique)
ArcIsUniqueStrongOnly(h, a) == h[a].strong = 1

ArcIsUnique(h, a) == h[a].strong = 1 /\ h[a].weak = 0

\* Arc::try_unwrap succeeds iff the strong count is one; Weak handles do not matter
ArcTryUnwrapNoWeak(h, a) == h[a].strong = 1 /\ h[a].weak = 0

ArcTryUnwrapAlways(h, a) == TRUE

ArcTryUnwrapOk(h, a) == h[a].strong = 1

\* The container moved out by a successful Arc::try_unwrap
ArcUnwrapLeaveBlock(h, a) == h

ArcUnwrap(h, a) == [h EXCEPT ![a] = [strong |-> 0, weak |-> @.weak, data |-> <<>>, spilled |-> FALSE]]

\* ---------------------------------------------------------------- ArcSlice

\* struct ArcSlice { underlying, start, end }; a slot that holds none is NoView.
NoView == [live |-> FALSE, underlying |-> 0, start |-> 0, end |-> 0]

View(a, s, e) == [live |-> TRUE, underlying |-> a, start |-> s, end |-> e]

\* ArcSlice::new: the bounds it resolves for a container of length len
NewStartNoClamp(r, len) ==
    CASE r.sb.kind = "Excluded" -> SaturatingAdd(r.sb.x, 1)
      [] r.sb.kind = "Included" -> r.sb.x
      [] OTHER -> 0

NewStart(r, len) ==
    CASE r.sb.kind = "Excluded" -> Min(SaturatingAdd(r.sb.x, 1), len)
      [] r.sb.kind = "Included" -> Min(r.sb.x, len)
      [] OTHER -> 0

NewEndNoClamp(r, len) ==
    CASE r.eb.kind = "Excluded" -> r.eb.x
      [] r.eb.kind = "Included" -> SaturatingAdd(r.eb.x, 1)
      [] OTHER -> len

NewEnd(r, len) ==
    CASE r.eb.kind = "Excluded" -> Min(r.eb.x, len)
      [] r.eb.kind = "Included" -> Min(SaturatingAdd(r.eb.x, 1), len)
      [] OTHER -> len

NewBoundsLowerStart(r, len) ==
    LET start == NewStart(r, len)
        end == NewEnd(r, len)
    IN  [start |-> Min(start, end), end |-> end]

NewBounds(r, len) ==
    LET start == NewStart(r, len)
        end == NewEnd(r, len)
    IN  [start |-> start, end |-> Max(start, end)]

\* ArcSlice::len
SliceLen(it) == it.end - it.start

\* ArcSlice::is_empty
SliceIsEmpty(it) == it.end = it.start

\* AsRef / Deref: underlying.get(start..end); None is the unwrap that panics
Deref(h, it) == ContainerGet(h[it.underlying], it.start, it.end)

\* The elements a view shows (the caller's *slice)
Elements(h, it) == Deref(h, it).val

\* ArcSlice::new(&underlying, range): the handle is cloned, the bounds clamped
NewCall(h, a, r) ==
    LET b == NewBounds(r, ContainerLen(h[a]))
    IN  [heap |-> ArcClone(h, a), it |-> View(a, b.start, b.end)]

\* Clone for ArcSlice
CloneCall(h, it) == [heap |-> ArcClone(h, it.underlying), it |-> it]

\* ArcSlice::split_at: the assertion, then two calls of new
SplitAtAssertsStrict(it, mid) == mid < SliceLen(it)

SplitAtAsserts(it, mid) == mid <= SliceLen(it)

SplitAtCallFromZero(h, it, mid) ==
    LET real_mid == mid
        low == NewCall(h, it.underlying, Range(it.start, real_mid))
        high == NewCall(low.heap, it.underlying, Range(real_mid, it.end))
    IN  [heap |-> high.heap, low |-> low.it, high |-> high.it]

SplitAtCall(h, it, mid) ==
    LET real_mid == it.start + mid
        low == NewCall(h, it.underlying, Range(it.start, real_mid))
        high == NewCall(low.heap, it.underlying, Range(real_mid, it.end))
    IN  [heap |-> high.heap, low |-> low.it, high |-> high.it]

\* ArcSlice::try_split_at
TrySplitAtOk(it, mid) == mid <= SliceLen(it)

\* ArcSlice::split_off_before: [ok, heap, it, ret]
SplitOffBeforeKeepStart(h, it, index) ==
    LET cut == CheckedAdd(it.start, index)
    IN  IF cut.some /\ cut.val <= it.end
        THEN LET front == CloneCall(h, it)
             IN  [ok |-> TRUE, heap |-> front.heap,
                  it |-> it,
                  ret |-> [front.it EXCEPT !.end = cut.val]]
        ELSE [ok |-> FALSE, heap |-> h, it |-> it, ret |-> NoView]

SplitOffBeforeCall(h, it, index) ==
    LET cut == CheckedAdd(it.start, index)
    IN  IF cut.some /\ cut.val <= it.end
        THEN LET front == CloneCall(h, it)
             IN  [ok |-> TRUE, heap |-> front.heap,
                  it |-> [it EXCEPT !.start = cut.val],
                  ret |-> [front.it EXCEPT !.end = cut.val]]
        ELSE [ok |-> FALSE, heap |-> h, it |-> it, ret |-> NoView]

\* ArcSlice::split_off_after
SplitOffAfterTruncating(h, it, index) ==
    LET cut == CheckedAdd(it.start, index)
    IN  IF cut.some /\ cut.val <= it.end
        THEN LET back == CloneCall(h, it)
             IN  [ok |-> TRUE,
                  heap |-> [back.heap EXCEPT ![it.underlying].data = Truncate(@, cut.val)],
                  it |-> [it EXCEPT !.end = cut.val],
                  ret |-> [back.it EXCEPT !.start = cut.val]]
        ELSE [ok |-> FALSE, heap |-> h, it |-> it, ret |-> NoView]

SplitOffAfterCall(h, it, index) ==
    LET cut == CheckedAdd(it.start, index)
    IN  IF cut.some /\ cut.val <= it.end
        THEN LET back == CloneCall(h, it)
             IN  [ok |-> TRUE, heap |-> back.heap,
                  it |-> [it EXCEPT !.end = cut.val],
                  ret |-> [back.it EXCEPT !.start = cut.val]]
        ELSE [ok |-> FALSE, heap |-> h, it |-> it, ret |-> NoView]

\* ArcSlice::advance: [ok, it, ret]
AdvanceNoEndCheck(h, it, incr) ==
    LET cut == CheckedAdd(it.start, incr)
    IN  IF cut.some
        THEN LET shed == ContainerGet(h[it.underlying], it.start, cut.val)
             IN  IF shed.some
                 THEN [ok |-> TRUE, it |-> [it EXCEPT !.start = cut.val], ret |-> shed.val]
                 ELSE [ok |-> FALSE, it |-> it, ret |-> <<>>]
        ELSE [ok |-> FALSE, it |-> it, ret |-> <<>>]

AdvanceCall(h, it, incr) ==
    LET cut == CheckedAdd(it.start, incr)
    IN  IF cut.some /\ cut.val <= it.end
        THEN LET shed == ContainerGet(h[it.underlying], it.start, cut.val)
             IN  IF shed.some
                 THEN [ok |-> TRUE, it |-> [it EXCEPT !.start = cut.val], ret |-> shed.val]
                 ELSE [ok |-> FALSE, it |-> it, ret |-> <<>>]
        ELSE [ok |-> FALSE, it |-> it, ret |-> <<>>]

\* ArcSlice::saturating_advance: ok = FALSE is the unwrap that panics
SaturatingAdvanceNoClamp(h, it, incr) ==
    LET cut == SaturatingAdd(it.start, incr)
        shed == ContainerGet(h[it.underlying], it.start, cut)
    IN  IF shed.some
        THEN [ok |-> TRUE, it |-> [it EXCEPT !.start = cut], ret |-> shed.val]
        ELSE [ok |-> FALSE, it |-> it, ret |-> <<>>]

SaturatingAdvanceCall(h, it, incr) ==
    LET cut == Min(SaturatingAdd(it.start, incr), it.end)
        shed == ContainerGet(h[it.underlying], it.start, cut)
    IN  IF shed.some
        THEN [ok |-> TRUE, it |-> [it EXCEPT !.start = cut], ret |-> shed.val]
        ELSE [ok |-> FALSE, it |-> it, ret |-> <<>>]

\* ArcSlice::retract
RetractNoStartCheck(h, it, decr) ==
    LET cut == CheckedSub(it.end, decr)
    IN  IF cut.some
        THEN LET shed == ContainerGet(h[it.underlying], cut.val, it.end)
             IN  IF shed.some
                 THEN [ok |-> TRUE, it |-> [it EXCEPT !.end = cut.val], ret |-> shed.val]
                 ELSE [ok |-> FALSE, it |-> it, ret |-> <<>>]
        ELSE [ok |-> FALSE, it |-> it, ret |-> <<>>]

RetractCall(h, it, decr) ==
    LET cut == CheckedSub(it.end, decr)
    IN  IF cut.some /\ cut.val >= it.start
        THEN LET shed == ContainerGet(h[it.underlying], cut.val, it.end)
             IN  IF shed.some
                 THEN [ok |-> TRUE, it |-> [it EXCEPT !.end = cut.val], ret |-> shed.val]
                 ELSE [ok |-> FALSE, it |-> it, ret |-> <<>>]
        ELSE [ok |-> FALSE, it |-> it, ret |-> <<>>]

\* ArcSlice::saturating_retract: ok = FALSE is the unwrap that panics
SaturatingRetractNoClamp(h, it, decr) ==
    LET cut == SaturatingSub(it.end, decr)
        shed == ContainerGet(h[it.underlying], cut, it.end)
    IN  IF shed.some
        THEN [ok |-> TRUE, it |-> [it EXCEPT !.end = cut], ret |-> shed.val]
        ELSE [ok |-> FALSE, it |-> it, ret |-> <<>>]

SaturatingRetractCall(h, it, decr) ==
    LET cut == Max(SaturatingSub(it.end, decr), it.start)
        shed == ContainerGet(h[it.underlying], cut, it.end)
    IN  IF shed.some
        THEN [ok |-> TRUE, it |-> [it EXCEPT !.end = cut], ret |-> shed.val]
        ELSE [ok |-> FALSE, it |-> it, ret |-> <<>>]

\* ArcSlice::change_range: the bounds it resolves
ChangeRangeBoundsRaiseEnd(r, len) ==
    LET start == NewStart(r, len)
        end == NewEnd(r, len)
    IN  [start |-> start, end |-> Max(start, end)]

ChangeRangeBounds(r, len) ==
    LET start0 ==
            CASE r.sb.kind = "Excluded" -> Min(SaturatingAdd(r.sb.x, 1), len)
              [] r.sb.kind = "Included" -> Min(r.sb.x, len)
              [] OTHER -> 0
        end ==
            CASE r.eb.kind = "Excluded" -> Min(r.eb.x, len)
              [] r.eb.kind = "Included" -> Min(SaturatingAdd(r.eb.x, 1), len)
              [] OTHER -> len
        start == Min(start0, end)
    IN  [start |-> start, end |-> end]

ChangeRangeWithinView(h, it, r) ==
    LET b == ChangeRangeBounds(r, SliceLen(it))
    IN  [it |-> [it EXCEPT !.start = b.start, !.end = b.end], ret |-> <<b.start, b.end>>]

ChangeRangeCall(h, it, r) ==
    LET b == ChangeRangeBounds(r, ContainerLen(h[it.underlying]))
    IN  [it |-> [it EXCEPT !.start = b.start, !.end = b.end], ret |-> <<b.start, b.end>>]

\* ArcSlice::get_mut: Arc::get_mut, then the container's get_mut(start..end)
GetMutOkShared(h, it) == ContainerGet(h[it.underlying], it.start, it.end).some

GetMutOk(h, it) ==
    /\ ArcIsUnique(h, it.underlying)
    /\ ContainerGet(h[it.underlying], it.start, it.end).some

\* A write of x through the slice get_mut returned, at its index i
WriteWholeContainer(h, it, i, x) ==
    [h EXCEPT ![it.underlying].data = [j \in 1 .. Len(@) |-> x]]

WriteThrough(h, it, i, x) ==
    [h EXCEPT ![it.underlying].data = [@ EXCEPT ![it.start + i + 1] = x]]

\* ArcSlice::ptr_eq
PtrEqAnyEnd(this, other) ==
    /\ this.underlying = other.underlying
    /\ this.start = other.start

PtrEq(this, other) ==
    /\ this.underlying = other.underlying
    /\ this.start = other.start
    /\ this.end = other.end

\* if let Some(new_range) = ... { it.start = new_range.start; it.end = new_range.end }
AdoptRangeKeepOld(new_range, it) == [start |-> it.start, end |-> it.end]

AdoptRange(new_range, it) ==
    IF new_range.some THEN new_range.val ELSE [start |-> it.start, end |-> it.end]

\* ArcSlice::shrink: [ok, heap, it]
ShrinkNoRestore(k, h, it) ==
    IF ~IsShrinkable(k)
    THEN [ok |-> FALSE, heap |-> h, it |-> it]
    ELSE IF it.start = 0 /\ it.end = ContainerLen(h[it.underlying])
    THEN [ok |-> FALSE, heap |-> h, it |-> it]
    ELSE LET p == PlaceholderId(h)
             h1 == ArcNew(h, p, DefaultContainer)
             orig == it.underlying
         IN  IF ArcTryUnwrapOk(h1, orig)
             THEN LET container == [data |-> h1[orig].data, spilled |-> h1[orig].spilled]
                      h2 == ArcUnwrap(h1, orig)
                      r == ShrinkContainerToRange(k, container, it.start, it.end)
                      b == AdoptRange(r.range, it)
                      n == NewAllocId(h2)
                      h3 == ArcNew(h2, n, r.c)
                  IN  [ok |-> TRUE,
                       heap |-> ArcDrop(h3, p),
                       it |-> View(n, b.start, b.end)]
             ELSE [ok |-> FALSE, heap |-> ArcDrop(h1, orig), it |-> [it EXCEPT !.underlying = p]]

ShrinkNoSpanCheck(k, h, it) ==
    IF ~IsShrinkable(k)
    THEN [ok |-> FALSE, heap |-> h, it |-> it]
    ELSE LET p == PlaceholderId(h)
             h1 == ArcNew(h, p, DefaultContainer)
             orig == it.underlying
         IN  IF ArcTryUnwrapOk(h1, orig)
             THEN LET container == [data |-> h1[orig].data, spilled |-> h1[orig].spilled]
                      h2 == ArcUnwrap(h1, orig)
                      r == ShrinkContainerToRange(k, container, it.start, it.end)
                      b == AdoptRange(r.range, it)
                      n == NewAllocId(h2)
                      h3 == ArcNew(h2, n, r.c)
                  IN  [ok |-> TRUE,
                       heap |-> ArcDrop(h3, p),
                       it |-> View(n, b.start, b.end)]
             ELSE [ok |-> FALSE, heap |-> ArcDrop(h1, p), it |-> it]

ShrinkKeepPlaceholder(k, h, it) ==
    IF ~IsShrinkable(k)
    THEN [ok |-> FALSE, heap |-> h, it |-> it]
    ELSE IF it.start = 0 /\ it.end = ContainerLen(h[it.underlying])
    THEN [ok |-> FALSE, heap |-> h, it |-> it]
    ELSE LET p == PlaceholderId(h)
             h1 == ArcNew(h, p, DefaultContainer)
             orig == it.underlying
         IN  IF ArcTryUnwrapOk(h1, orig)
             THEN LET container == [data |-> h1[orig].data, spilled |-> h1[orig].spilled]
                      h2 == ArcUnwrap(h1, orig)
                      r == ShrinkContainerToRange(k, container, it.start, it.end)
                      b == AdoptRange(r.range, it)
                      n == NewAllocId(h2)
                      h3 == ArcNew(h2, n, r.c)
                  IN  [ok |-> TRUE, heap |-> h3, it |-> View(n, b.start, b.end)]
             ELSE [ok |-> FALSE, heap |-> ArcDrop(h1, p), it |-> it]

ShrinkCall(k, h, it) ==
    IF ~IsShrinkable(k)
    THEN [ok |-> FALSE, heap |-> h, it |-> it]
    ELSE IF it.start = 0 /\ it.end = ContainerLen(h[it.underlying])
    THEN [ok |-> FALSE, heap |-> h, it |-> it]
    ELSE LET p == PlaceholderId(h)
             \* temp = Arc::new(T::default()); swap(temp, it.underlying)
             h1 == ArcNew(h, p, DefaultContainer)
             orig == it.underlying
         IN  IF ArcTryUnwrapOk(h1, orig)
             THEN LET container == [data |-> h1[orig].data, spilled |-> h1[orig].spilled]
                      h2 == ArcUnwrap(h1, orig)
                      r == ShrinkContainerToRange(k, container, it.start, it.end)
                      b == AdoptRange(r.range, it)
                      \* temp2 = Arc::new(container); swap(temp2, it.underlying)
                      n == NewAllocId(h2)
                      h3 == ArcNew(h2, n, r.c)
                  IN  [ok |-> TRUE,
                       heap |-> ArcDrop(h3, p),
                       it |-> View(n, b.start, b.end)]
             ELSE \* Err(temp2): swap(temp2, it.underlying); the placeholder is dropped
                  [ok |-> FALSE, heap |-> ArcDrop(h1, p), it |-> it]

\* ------------------------------------------------------------------- state

VARIABLES
    kind,         \* the container type T of this program's ArcSlice<T>
    heap,         \* AllocIds -> ArcInner block
    views,        \* ViewIds -> the ArcSlice a slot holds, or NoView
    buffer,       \* the caller's own Arc<T> (`buffer` of the examples): an id, 0 for none
    weak_buffer,  \* the caller's Weak<T> (`weak_buffer`): an id, 0 for none
    observe,      \* the operations whose calls this run records in `last`
    gate,         \* where the run is in the two-handles / drop-one scenario
    last,         \* the last call: its arguments, its result, the state before it
    threads       \* ThreadIds -> what a thread of the concurrent program holds and where it is

vars == <<kind, heap, views, buffer, weak_buffer, observe, gate, last, threads>>

NoRange == RangeOf(Unbounded, Unbounded)

\* Threads of the concurrent program; thread t owns the view in slot t.
ThreadIds == {1, 2}

\* A thread between calls, holding no Arc and no Weak of its own.
NoThread == [pc |-> "idle", orig |-> 0, container |-> DefaultContainer, handle |-> 0, weak |-> 0]

Idle == [phase |-> "idle", alloc |-> 0, v |-> 0, start |-> 0, end |-> 0, elems |-> <<>>]

\* The record of a call: op(slot v, n or r) returned ok along the code path `path`
\* with ret (slots of the views returned, elements shed, or bounds).
Call(op, v, n, r, ok, path, ret) ==
    [op |-> op, v |-> v, n |-> n, r |-> r, ok |-> ok, path |-> path, ret |-> ret,
     gate |-> gate, heap |-> heap, views |-> views]

NoCall ==
    [op |-> "init", v |-> 0, n |-> 0, r |-> NoRange, ok |-> TRUE, path |-> "", ret |-> <<>>,
     gate |-> Idle, heap |-> <<>>, views |-> <<>>]

Log(rec) == IF rec.op \in observe THEN rec ELSE NoCall

\* The scenario monitor: "shared" once get_mut or shrink has failed on a container
\* with two strong handles, "released" once one of the two has then been dropped;
\* "advanced" right after advance(v, k), with what v was and showed before it.
\* Any other call ends the scenario.
GateAfter(op, ok, a, hpost) ==
    IF observe = {} THEN gate
    ELSE IF op \in {"get_mut", "shrink"}
    THEN IF ~ok /\ heap[a].strong = 2 THEN [Idle EXCEPT !.phase = "shared", !.alloc = a]
         ELSE IF op = "get_mut" /\ gate.phase = "released" /\ gate.alloc = a THEN gate
         ELSE Idle
    ELSE IF /\ op \in {"drop", "drop_buffer"}
            /\ gate.phase = "shared"
            /\ heap[gate.alloc].strong = 2
            /\ hpost[gate.alloc].strong = 1
         THEN [Idle EXCEPT !.phase = "released", !.alloc = gate.alloc]
         ELSE Idle

\* The monitor after advance on the view it in slot v.
GateAdvanced(v, it) ==
    IF observe = {} THEN gate
    ELSE [phase |-> "advanced", alloc |-> it.underlying, v |-> v,
          start |-> it.start, end |-> it.end, elems |-> Elements(heap, it)]

LiveViews(vs) == {v \in ViewIds : vs[v].live}

FreeSlots(vs) == {v \in ViewIds : ~vs[v].live}

\* The caller's next unused slot, and the one after it.
Slot1(vs) == CHOOSE v \in FreeSlots(vs) : \A w \in FreeSlots(vs) : v <= w

Slot2(vs) == CHOOSE v \in FreeSlots(vs) \ {Slot1(vs)} : \A w \in FreeSlots(vs) \ {Slot1(vs)} : v <= w

\* Handles the caller can pass as &Arc<T>: its buffer, or inner(view).
Reachable(a) == a # 0 /\ (buffer = a \/ \E v \in LiveViews(views) : views[v].underlying = a)

\* Ranges the caller passes: a..b in bounds, inverted or past the end, and `..`
MainRanges == {Range(a, b) : a \in 0 .. MaxLen, b \in 0 .. (MaxLen + 1)} \cup {RangeFull}

\* Every form of range, with bounds up to usize::MAX
BoundVals == (0 .. (MaxLen + 1)) \cup {UsizeMax - 1, UsizeMax}

AllBounds == {Unbounded} \cup {Included(x) : x \in BoundVals} \cup {Excluded(x) : x \in BoundVals}

AllRanges == {RangeOf(sb, eb) : sb \in AllBounds, eb \in AllBounds}

\* The states after construction: one container of type k behind the caller's
\* `buffer`, no view yet.  A SmallVec longer than its inline capacity is spilled; a
\* shorter one is spilled when it was built from a Vec of larger capacity.
InitWith(ks, obs) ==
    /\ kind \in ks
    /\ \E L \in 0 .. MaxLen, sp \in BOOLEAN :
          /\ sp => kind = "smallvec"
          /\ (kind = "smallvec" /\ L > InlineCap) => sp
          /\ heap = [a \in AllocIds |->
                        IF a = 1
                        THEN [strong |-> 1, weak |-> 0, data |-> FreshData(L), spilled |-> sp]
                        ELSE FreeAlloc]
    /\ views = [v \in ViewIds |-> NoView]
    /\ buffer = 1
    /\ weak_buffer = 0
    /\ observe = obs
    /\ gate = Idle
    /\ last = NoCall
    /\ threads = [t \in ThreadIds |-> NoThread]

Init == InitWith(Kinds, {})

\* ----------------------------------------------------------------- actions

\* let slice = ArcSlice::new(&handle, r)
New(a, r) ==
    /\ Reachable(a)
    /\ FreeSlots(views) # {}
    /\ LET c == NewCall(heap, a, r)
           v == Slot1(views)
       IN  /\ heap' = c.heap
           /\ views' = [views EXCEPT ![v] = c.it]
           /\ last' = Log(Call("new", v, a, r, TRUE, "ok", <<c.it.start, c.it.end>>))
           /\ gate' = GateAfter("new", TRUE, a, c.heap)
    /\ UNCHANGED <<kind, buffer, weak_buffer, observe, threads>>

\* let copy = slice.clone()
Clone(v) ==
    /\ views[v].live
    /\ FreeSlots(views) # {}
    /\ LET c == CloneCall(heap, views[v])
           w == Slot1(views)
       IN  /\ heap' = c.heap
           /\ views' = [views EXCEPT ![w] = c.it]
           /\ last' = Log(Call("clone", v, 0, NoRange, TRUE, "ok", <<w>>))
           /\ gate' = GateAfter("clone", TRUE, views[v].underlying, c.heap)
    /\ UNCHANGED <<kind, buffer, weak_buffer, observe, threads>>

\* drop(slice)
DropView(v) ==
    /\ views[v].live
    /\ LET h == ArcDrop(heap, views[v].underlying)
       IN  /\ heap' = h
           /\ views' = [views EXCEPT ![v] = NoView]
           /\ last' = Log(Call("drop", v, 0, NoRange, TRUE, "ok", <<>>))
           /\ gate' = GateAfter("drop", TRUE, views[v].underlying, h)
    /\ UNCHANGED <<kind, buffer, weak_buffer, observe, threads>>

\* core::mem::drop(buffer)
DropBuffer ==
    /\ buffer # 0
    /\ LET h == ArcDrop(heap, buffer)
       IN  /\ heap' = h
           /\ buffer' = 0
           /\ last' = Log(Call("drop_buffer", 0, 0, NoRange, TRUE, "ok", <<>>))
           /\ gate' = GateAfter("drop_buffer", TRUE, buffer, h)
    /\ UNCHANGED <<kind, views, weak_buffer, observe, threads>>

\* let buffer = ArcSlice::inner(&slice).clone()
CloneInner(v) ==
    /\ views[v].live
    /\ buffer = 0
    /\ LET h == ArcClone(heap, views[v].underlying)
       IN  /\ heap' = h
           /\ buffer' = views[v].underlying
           /\ last' = Log(Call("clone_inner", v, 0, NoRange, TRUE, "ok", <<>>))
           /\ gate' = GateAfter("clone_inner", TRUE, views[v].underlying, h)
    /\ UNCHANGED <<kind, views, weak_buffer, observe, threads>>

\* let weak_buffer = Arc::downgrade(&handle)
Downgrade(a) ==
    /\ Reachable(a)
    /\ weak_buffer = 0
    /\ heap' = [heap EXCEPT ![a].weak = @ + 1]
    /\ weak_buffer' = a
    /\ last' = Log(Call("downgrade", 0, a, NoRange, TRUE, "ok", <<>>))
    /\ gate' = GateAfter("downgrade", TRUE, a, heap')
    /\ UNCHANGED <<kind, views, buffer, observe, threads>>

\* drop(weak_buffer)
DropWeak ==
    /\ weak_buffer # 0
    /\ heap' = [heap EXCEPT ![weak_buffer].weak = @ - 1]
    /\ weak_buffer' = 0
    /\ last' = Log(Call("drop_weak", 0, 0, NoRange, TRUE, "ok", <<>>))
    /\ gate' = GateAfter("drop_weak", TRUE, weak_buffer, heap')
    /\ UNCHANGED <<kind, views, buffer, observe, threads>>

\* let buffer = weak_buffer.upgrade(): None once the container is gone
Upgrade ==
    /\ weak_buffer # 0
    /\ buffer = 0
    /\ IF heap[weak_buffer].strong > 0
       THEN /\ heap' = ArcClone(heap, weak_buffer)
            /\ buffer' = weak_buffer
            /\ last' = Log(Call("upgrade", 0, 0, NoRange, TRUE, "ok", <<>>))
       ELSE /\ UNCHANGED <<heap, buffer>>
            /\ last' = Log(Call("upgrade", 0, 0, NoRange, FALSE, "none", <<>>))
    /\ gate' = GateAfter("upgrade", TRUE, weak_buffer, heap')
    /\ UNCHANGED <<kind, views, weak_buffer, observe, threads>>

\* let (low, high) = ArcSlice::split_at(&slice, mid)
SplitAt(v, mid) ==
    /\ views[v].live
    /\ IF SplitAtAsserts(views[v], mid)
       THEN /\ Cardinality(FreeSlots(views)) >= 2
            /\ LET c == SplitAtCall(heap, views[v], mid)
                   lo == Slot1(views)
                   hi == Slot2(views)
               IN  /\ heap' = c.heap
                   /\ views' = [views EXCEPT ![lo] = c.low, ![hi] = c.high]
                   /\ last' = Log(Call("split_at", v, mid, NoRange, TRUE, "ok", <<lo, hi>>))
       ELSE /\ UNCHANGED <<heap, views>>
            /\ last' = Log(Call("split_at", v, mid, NoRange, FALSE, "panic", <<>>))
    /\ gate' = GateAfter("split_at", TRUE, views[v].underlying, heap')
    /\ UNCHANGED <<kind, buffer, weak_buffer, observe, threads>>

\* ArcSlice::try_split_at(&slice, mid): Some(split_at(it, mid)) when mid <= len
TrySplitAt(v, mid) ==
    /\ views[v].live
    /\ IF TrySplitAtOk(views[v], mid)
       THEN IF SplitAtAsserts(views[v], mid)
            THEN /\ Cardinality(FreeSlots(views)) >= 2
                 /\ LET c == SplitAtCall(heap, views[v], mid)
                        lo == Slot1(views)
                        hi == Slot2(views)
                    IN  /\ heap' = c.heap
                        /\ views' = [views EXCEPT ![lo] = c.low, ![hi] = c.high]
                        /\ last' = Log(Call("try_split_at", v, mid, NoRange, TRUE, "ok", <<lo, hi>>))
            ELSE /\ UNCHANGED <<heap, views>>
                 /\ last' = Log(Call("try_split_at", v, mid, NoRange, FALSE, "panic", <<>>))
       ELSE /\ UNCHANGED <<heap, views>>
            /\ last' = Log(Call("try_split_at", v, mid, NoRange, FALSE, "none", <<>>))
    /\ gate' = GateAfter("try_split_at", TRUE, views[v].underlying, heap')
    /\ UNCHANGED <<kind, buffer, weak_buffer, observe, threads>>

\* ArcSlice::split_off_before(&mut slice, index)
SplitOffBefore(v, index) ==
    /\ views[v].live
    /\ LET c == SplitOffBeforeCall(heap, views[v], index)
       IN  IF c.ok
           THEN /\ FreeSlots(views) # {}
                /\ heap' = c.heap
                /\ views' = [views EXCEPT ![v] = c.it, ![Slot1(views)] = c.ret]
                /\ last' = Log(Call("split_off_before", v, index, NoRange, TRUE, "ok", <<Slot1(views)>>))
           ELSE /\ heap' = c.heap
                /\ views' = [views EXCEPT ![v] = c.it]
                /\ last' = Log(Call("split_off_before", v, index, NoRange, FALSE, "none", <<>>))
    /\ gate' = GateAfter("split_off_before", TRUE, views[v].underlying, heap')
    /\ UNCHANGED <<kind, buffer, weak_buffer, observe, threads>>

\* ArcSlice::split_off_after(&mut slice, index)
SplitOffAfter(v, index) ==
    /\ views[v].live
    /\ LET c == SplitOffAfterCall(heap, views[v], index)
       IN  IF c.ok
           THEN /\ FreeSlots(views) # {}
                /\ heap' = c.heap
                /\ views' = [views EXCEPT ![v] = c.it, ![Slot1(views)] = c.ret]
                /\ last' = Log(Call("split_off_after", v, index, NoRange, TRUE, "ok", <<Slot1(views)>>))
           ELSE /\ heap' = c.heap
                /\ views' = [views EXCEPT ![v] = c.it]
                /\ last' = Log(Call("split_off_after", v, index, NoRange, FALSE, "none", <<>>))
    /\ gate' = GateAfter("split_off_after", TRUE, views[v].underlying, heap')
    /\ UNCHANGED <<kind, buffer, weak_buffer, observe, threads>>

\* ArcSlice::advance(&mut slice, incr)
Advance(v, incr) ==
    /\ views[v].live
    /\ LET c == AdvanceCall(heap, views[v], incr)
       IN  /\ views' = [views EXCEPT ![v] = c.it]
           /\ last' = Log(Call("advance", v, incr, NoRange, c.ok, IF c.ok THEN "ok" ELSE "none", c.ret))
    /\ gate' = GateAdvanced(v, views[v])
    /\ UNCHANGED <<kind, heap, buffer, weak_buffer, observe, threads>>

\* ArcSlice::saturating_advance(&mut slice, incr)
SaturatingAdvance(v, incr) ==
    /\ views[v].live
    /\ LET c == SaturatingAdvanceCall(heap, views[v], incr)
       IN  /\ views' = [views EXCEPT ![v] = c.it]
           /\ last' = Log(Call("saturating_advance", v, incr, NoRange, c.ok,
                               IF c.ok THEN "ok" ELSE "panic", c.ret))
    /\ gate' = GateAfter("saturating_advance", TRUE, views[v].underlying, heap)
    /\ UNCHANGED <<kind, heap, buffer, weak_buffer, observe, threads>>

\* ArcSlice::retract(&mut slice, decr)
Retract(v, decr) ==
    /\ views[v].live
    /\ LET c == RetractCall(heap, views[v], decr)
       IN  /\ views' = [views EXCEPT ![v] = c.it]
           /\ last' = Log(Call("retract", v, decr, NoRange, c.ok, IF c.ok THEN "ok" ELSE "none", c.ret))
    /\ gate' = GateAfter("retract", TRUE, views[v].underlying, heap)
    /\ UNCHANGED <<kind, heap, buffer, weak_buffer, observe, threads>>

\* ArcSlice::saturating_retract(&mut slice, decr)
SaturatingRetract(v, decr) ==
    /\ views[v].live
    /\ LET c == SaturatingRetractCall(heap, views[v], decr)
       IN  /\ views' = [views EXCEPT ![v] = c.it]
           /\ last' = Log(Call("saturating_retract", v, decr, NoRange, c.ok,
                               IF c.ok THEN "ok" ELSE "panic", c.ret))
    /\ gate' = GateAfter("saturating_retract", TRUE, views[v].underlying, heap)
    /\ UNCHANGED <<kind, heap, buffer, weak_buffer, observe, threads>>

\* ArcSlice::change_range(&mut slice, r)
ChangeRange(v, r) ==
    /\ views[v].live
    /\ LET c == ChangeRangeCall(heap, views[v], r)
       IN  /\ views' = [views EXCEPT ![v] = c.it]
           /\ last' = Log(Call("change_range", v, 0, r, TRUE, "ok", c.ret))
    /\ gate' = GateAfter("change_range", TRUE, views[v].underlying, heap)
    /\ UNCHANGED <<kind, heap, buffer, weak_buffer, observe, threads>>

\* ArcSlice::get_mut(&mut slice), and what the caller does with the slice it got:
\* nothing (i = -1) or one write, slice[i] = Written.
GetMut(v, i) ==
    /\ views[v].live
    /\ i < SliceLen(views[v])
    /\ IF GetMutOk(heap, views[v])
       THEN /\ heap' = IF i >= 0 THEN WriteThrough(heap, views[v], i, Written) ELSE heap
            /\ last' = Log(Call("get_mut", v, i, NoRange, TRUE, "ok",
                                <<views[v].start, views[v].end>>))
       ELSE /\ i = -1
            /\ heap' = heap
            /\ last' = Log(Call("get_mut", v, i, NoRange, FALSE, "none", <<>>))
    /\ gate' = GateAfter("get_mut", GetMutOk(heap, views[v]), views[v].underlying, heap')
    /\ UNCHANGED <<kind, views, buffer, weak_buffer, observe, threads>>

\* ArcSlice::shrink(&mut slice)
Shrink(v) ==
    /\ views[v].live
    /\ LET c == ShrinkCall(kind, heap, views[v])
       IN  /\ heap' = c.heap
           /\ views' = [views EXCEPT ![v] = c.it]
           /\ last' = Log(Call("shrink", v, 0, NoRange, c.ok, IF c.ok THEN "ok" ELSE "none", <<>>))
           /\ gate' = GateAfter("shrink", c.ok, views[v].underlying, c.heap)
    /\ UNCHANGED <<kind, buffer, weak_buffer, observe, threads>>

\* Every operation, in any order, on up to three views of one container.
Next ==
    \/ \E a \in AllocIds, r \in MainRanges : New(a, r)
    \/ \E v \in ViewIds : Clone(v)
    \/ \E v \in ViewIds : DropView(v)
    \/ DropBuffer
    \/ \E v \in ViewIds : CloneInner(v)
    \/ \E a \in AllocIds : Downgrade(a)
    \/ DropWeak
    \/ Upgrade
    \/ \E v \in ViewIds, mid \in ArgVals : SplitAt(v, mid)
    \/ \E v \in ViewIds, mid \in ArgVals : TrySplitAt(v, mid)
    \/ \E v \in ViewIds, index \in ArgVals : SplitOffBefore(v, index)
    \/ \E v \in ViewIds, index \in ArgVals : SplitOffAfter(v, index)
    \/ \E v \in ViewIds, incr \in ArgVals : Advance(v, incr)
    \/ \E v \in ViewIds, incr \in ArgVals : SaturatingAdvance(v, incr)
    \/ \E v \in ViewIds, decr \in ArgVals : Retract(v, decr)
    \/ \E v \in ViewIds, decr \in ArgVals : SaturatingRetract(v, decr)
    \/ \E v \in ViewIds, r \in MainRanges : ChangeRange(v, r)
    \/ \E v \in ViewIds : GetMut(v, -1)
    \/ \E v \in ViewIds : Shrink(v)

Spec == Init /\ [][Next]_vars

\* Ownership: up to two views of the caller's container, its buffer and its weak
\* handle; get_mut (with the caller's writes) and shrink, every call recorded.
\* Ranges in bounds, and `..`
OwnRanges == {Range(a, b) : a \in 0 .. MaxLen, b \in 0 .. MaxLen} \cup {RangeFull}

InitOwn == InitWith(Kinds, {"get_mut", "shrink", "upgrade"})

NextOwn ==
    \/ \E a \in AllocIds, r \in OwnRanges : Cardinality(LiveViews(views)) < 2 /\ New(a, r)
    \/ \E v \in ViewIds : Cardinality(LiveViews(views)) < 2 /\ Clone(v)
    \/ \E v \in ViewIds : DropView(v)
    \/ DropBuffer
    \/ \E v \in ViewIds : CloneInner(v)
    \/ \E a \in AllocIds : Downgrade(a)
    \/ DropWeak
    \/ Upgrade
    \/ \E v \in ViewIds, i \in -1 .. (MaxLen - 1) : GetMut(v, i)
    \/ \E v \in ViewIds : Shrink(v)

SpecOwn == InitOwn /\ [][NextOwn]_vars

\* ------------------------------------------------------------------ claims

\* C1: after any sequence of view operations, every live view has
\* start <= end and end <= the length of the container its handle points to
\* (and that container is alive).
C1_ViewInvariant ==
    \A v \in ViewIds :
        views[v].live =>
            /\ views[v].underlying \in AllocIds
            /\ heap[views[v].underlying].strong > 0
            /\ views[v].start <= views[v].end
            /\ views[v].end <= ContainerLen(heap[views[v].underlying])

\* A non-empty view of a container that shrink has compacted (its first element is
\* gone), beside a weak handle left on the old allocation.
C1_Witness ==
    \E v \in ViewIds :
        /\ views[v].live
        /\ SliceLen(views[v]) > 0
        /\ heap[views[v].underlying].data[1] # FreshData(1)[1]
        /\ weak_buffer # 0
        /\ weak_buffer # views[v].underlying

\* The view a recorded call was made on, and its allocation, as they were before it.
PreView == last.views[last.v]

PreBlock == last.heap[PreView.underlying]

\* Handles on allocation a other than the view in slot v: the caller's buffer, or
\* another live view.
OtherHandle(vs, buf, v, a) ==
    \/ buf = a
    \/ \E w \in ViewIds \ {v} : vs[w].live /\ vs[w].underlying = a

\* C2 (as amended): get_mut returns the slice over exactly [start, end) if and only
\* if the view's handle is the only strong reference to the container and no weak
\* reference to it exists; in every other state it returns None, in particular
\* whenever another handle or view (of any range) is on the container.
C2_GetMutIffUnique ==
    last.op = "get_mut" =>
        /\ last.ok <=> (PreBlock.strong = 1 /\ PreBlock.weak = 0)
        /\ last.ok => last.ret = <<PreView.start, PreView.end>>
        /\ OtherHandle(last.views, buffer, last.v, PreView.underlying) => ~last.ok

\* C2 as stated: get_mut returns the slice if and only if the reference count is one.
C2_Original ==
    last.op = "get_mut" => (last.ok <=> PreBlock.strong = 1)

\* get_mut on a view that is not the whole container succeeded, and the caller wrote
\* through the slice.
C2_Witness ==
    /\ last.op = "get_mut"
    /\ last.ok
    /\ last.n >= 0
    /\ PreView.start > 0

\* The recorded call came right after the scenario: it failed on two handles, one of
\* the two was dropped, and this call is made on the view that remains.
AfterRelease ==
    /\ last.gate.phase = "released"
    /\ last.gate.alloc = PreView.underlying

WholeSpan(h, it) == it.start = 0 /\ it.end = ContainerLen(h[it.underlying])

\* C3 (as amended): on a container referenced by two live handles, get_mut and
\* shrink on a view of it both fail; after one of the two is dropped, get_mut on the
\* remaining view succeeds exactly when no weak reference to the container exists,
\* and shrink succeeds exactly when the container type is shrinkable and the view
\* does not span the whole container.
C3_UniquenessGating ==
    /\ (last.op \in {"get_mut", "shrink"} /\ PreBlock.strong = 2) => ~last.ok
    /\ (last.op = "get_mut" /\ AfterRelease) => (last.ok <=> PreBlock.weak = 0)
    /\ (last.op = "shrink" /\ AfterRelease) =>
           (last.ok <=> (IsShrinkable(kind) /\ ~WholeSpan(last.heap, PreView)))

\* C3 as stated: after one of the two handles is dropped, get_mut and shrink on the
\* remaining view both succeed.
C3_Original ==
    /\ (last.op \in {"get_mut", "shrink"} /\ PreBlock.strong = 2) => ~last.ok
    /\ (last.op \in {"get_mut", "shrink"} /\ AfterRelease) => last.ok

\* The crate's example: a call failed while `buffer` was alive, `buffer` was dropped,
\* and shrink then succeeded on the remaining view.
C3_Witness ==
    /\ last.op = "shrink"
    /\ last.ok
    /\ AfterRelease
    /\ buffer = 0

\* The view the recorded call was made on, as it is after the call.
PostView == views[last.v]

\* A SmallVec that holds its data inline: shrink_container_to_range declines.
Inline(k, blk) == k = "smallvec" /\ ~blk.spilled

\* C4 (as amended): after every shrink that returns true, for every container
\* implementation, the view shows the same elements as immediately before the call;
\* the container's length equals the view's length afterwards, except for a SmallVec
\* whose data is inline, where the container and the view's range are left as they were.
C4_ShrinkNonCorruption ==
    (last.op = "shrink" /\ last.ok) =>
        /\ Deref(heap, PostView).some
        /\ Elements(heap, PostView) = Elements(last.heap, PreView)
        /\ ~Inline(kind, PreBlock) =>
               ContainerLen(heap[PostView.underlying]) = SliceLen(PostView)
        /\ Inline(kind, PreBlock) =>
               /\ heap[PostView.underlying].data = PreBlock.data
               /\ PostView.start = PreView.start
               /\ PostView.end = PreView.end

\* C4 as stated: after every shrink that returns true the elements are the same and
\* the container's length equals the view's length.
C4_Original ==
    (last.op = "shrink" /\ last.ok) =>
        /\ Elements(heap, PostView) = Elements(last.heap, PreView)
        /\ ContainerLen(heap[PostView.underlying]) = SliceLen(PostView)

\* A Vec was compacted to a non-empty view that did not start at its first element.
C4_Witness ==
    /\ last.op = "shrink"
    /\ last.ok
    /\ kind = "vec"
    /\ PreView.start > 0
    /\ SliceLen(PreView) > 0

\* Construction: ArcSlice::new with every form of range on the caller's container,
\* one view at a time, every call recorded.
InitNew == InitWith(Kinds, {"new"})

NextNew ==
    \/ \E a \in AllocIds, r \in AllRanges : LiveViews(views) = {} /\ New(a, r)
    \/ \E v \in ViewIds : DropView(v)

SpecNew == InitNew /\ [][NextNew]_vars

\* The container a recorded call of new was given, and its length.
NewBlock == last.heap[last.n]

NewLen == ContainerLen(NewBlock)

\* C6: new(handle, range) is total: for every combination of inclusive, exclusive
\* or unbounded start and end bounds and every bound value it returns a view, and
\* that view has start <= end <= container length.
C6_NewTotal ==
    /\ (buffer # 0 /\ LiveViews(views) = {}) =>
           \A r \in AllRanges : ENABLED New(buffer, r)
    /\ last.op = "new" =>
           /\ last.ok
           /\ PostView.live
           /\ PostView.underlying = last.n
           /\ PostView.start <= PostView.end
           /\ PostView.end <= NewLen

\* new was given an inverted range whose bounds both lie past the end.
C6_Witness ==
    /\ last.op = "new"
    /\ last.r = RangeOf(Excluded(UsizeMax), Included(UsizeMax - 1))
    /\ NewLen > 0

\* The recorded call of new resolved a start greater than the end it resolved.
NewInverted ==
    /\ last.op = "new"
    /\ NewStart(last.r, NewLen) > NewEnd(last.r, NewLen)

\* C7 (as amended): when the start resolved by new(handle, range) is greater than
\* the resolved end, the start is kept and the final end is raised to
\* max(start, end): the result is the empty view positioned at the resolved start.
C7_InvertedKeepsStart ==
    NewInverted =>
        /\ PostView.start = NewStart(last.r, NewLen)
        /\ PostView.end = NewStart(last.r, NewLen)

\* C7 as stated: the final start is lowered to min(start, end) and the end is kept.
C7_Original ==
    NewInverted =>
        /\ PostView.start = NewEnd(last.r, NewLen)
        /\ PostView.end = NewEnd(last.r, NewLen)

\* new(handle, 1..0) on a container of two or more elements.
C7_Witness ==
    /\ NewInverted
    /\ last.r = Range(1, 0)
    /\ NewLen >= 2

\* C8: for a container of length L, new(handle, a..b) with a > L yields L..L;
\* new(handle, ..) yields 0..L; new(handle, a..b) with a <= b <= L yields a..b;
\* new(handle, a..=b) with a <= b < L yields a..b+1; and the view's elements are the
\* container's elements at those positions.
C8_ClampCorrectness ==
    last.op = "new" =>
        LET L == NewLen
            sb == last.r.sb
            eb == last.r.eb
            is(s, e) == PostView.start = s /\ PostView.end = e
        IN  /\ (sb.kind = "Included" /\ eb.kind = "Excluded" /\ sb.x > L) => is(L, L)
            /\ last.r = RangeFull => is(0, L)
            /\ (sb.kind = "Included" /\ eb.kind = "Excluded" /\ sb.x <= eb.x /\ eb.x <= L) =>
                   is(sb.x, eb.x)
            /\ (sb.kind = "Included" /\ eb.kind = "Included" /\ sb.x <= eb.x /\ eb.x < L) =>
                   is(sb.x, eb.x + 1)
            /\ Deref(heap, PostView).some
            /\ Elements(heap, PostView) =
                   [i \in 1 .. (PostView.end - PostView.start) |-> NewBlock.data[PostView.start + i]]

\* new(handle, a..b) with a past the end and b inside the container.
C8_Witness ==
    /\ last.op = "new"
    /\ last.r = Range(NewLen + 1, 1)
    /\ NewLen >= 2

\* Splitting: views of the caller's container split by split_at and try_split_at,
\* every call recorded.
InitSplit == InitWith(Kinds, {"split_at", "try_split_at"})

NextSplit ==
    \/ \E a \in AllocIds, r \in MainRanges : New(a, r)
    \/ \E v \in ViewIds : DropView(v)
    \/ \E v \in ViewIds, mid \in ArgVals : SplitAt(v, mid)
    \/ \E v \in ViewIds, mid \in ArgVals : TrySplitAt(v, mid)

SpecSplit == InitSplit /\ [][NextSplit]_vars

\* The pair a recorded split returned.
Low == views[last.ret[1]]

High == views[last.ret[2]]

\* The pair is (start .. start+mid, start+mid .. end) on the receiver's allocation.
SplitsAt(it, mid, low, high) ==
    /\ low = View(it.underlying, it.start, it.start + mid)
    /\ high = View(it.underlying, it.start + mid, it.end)

DataOf(h) == [a \in AllocIds |-> h[a].data]

\* C9: for every view v and every mid <= len(v), split_at(v, mid) returns
\* low = [start, start+mid) and high = [start+mid, end) on v's allocation, the
\* elements of low followed by those of high are the elements of v, and v's own
\* range and the container are unchanged.
C9_SplitConservation ==
    (last.op = "split_at" /\ last.n <= SliceLen(PreView)) =>
        /\ last.ok
        /\ SplitsAt(PreView, last.n, Low, High)
        /\ Deref(heap, Low).some /\ Deref(heap, High).some
        /\ Elements(heap, Low) \o Elements(heap, High) = Elements(last.heap, PreView)
        /\ PostView = PreView
        /\ DataOf(heap) = DataOf(last.heap)

\* A view that does not start at the container's first element was split at a
\* position past its own first element.
C9_Witness ==
    /\ last.op = "split_at"
    /\ last.ok
    /\ PreView.start > 0
    /\ last.n > 0

\* C10: split_at panics exactly when mid > len(v); try_split_at returns None
\* exactly when mid > len(v) and otherwise returns the pair split_at returns; in
\* the failing case no view is created and the reference count is unchanged.
C10_SplitFailure ==
    /\ last.op = "split_at" => (last.path = "panic" <=> last.n > SliceLen(PreView))
    /\ last.op = "try_split_at" =>
           /\ last.path = "none" <=> last.n > SliceLen(PreView)
           /\ last.n <= SliceLen(PreView) => (last.ok /\ SplitsAt(PreView, last.n, Low, High))
    /\ (last.op \in {"split_at", "try_split_at"} /\ ~last.ok) =>
           /\ views = last.views
           /\ heap = last.heap

\* split_at panicked on mid = len + 1.
C10_Witness ==
    /\ last.op = "split_at"
    /\ last.path = "panic"
    /\ last.n = SliceLen(PreView) + 1
    /\ SliceLen(PreView) > 0

\* ------------------------------------------------------ concurrent program
\* Threads share one atomically counted container.  Each step is one atomic
\* operation on the counts (fetch_add, fetch_sub, compare_exchange), or thread-local.

\* Thread u holds a strong handle on allocation a: its view, an Arc of its own,
\* or the original handle it has swapped out of its view inside shrink.
Holds(u, a) ==
    \/ views[u].live /\ views[u].underlying = a
    \/ threads[u].handle = a
    \/ threads[u].pc \in {"swapped", "failed"} /\ threads[u].orig = a

IdleThread(t) == threads[t].pc = "idle"

\* let copy = slice.clone(); the copy is moved to thread u
TSend(t, u) ==
    /\ t # u
    /\ IdleThread(t) /\ IdleThread(u)
    /\ views[t].live /\ ~views[u].live
    /\ LET c == CloneCall(heap, views[t])
       IN  /\ heap' = c.heap
           /\ views' = [views EXCEPT ![u] = c.it]
    /\ UNCHANGED <<kind, buffer, weak_buffer, observe, gate, last, threads>>

\* drop(slice)
TDropView(t) ==
    /\ IdleThread(t)
    /\ views[t].live
    /\ heap' = ArcDrop(heap, views[t].underlying)
    /\ views' = [views EXCEPT ![t] = NoView]
    /\ UNCHANGED <<kind, buffer, weak_buffer, observe, gate, last, threads>>

\* let weak = Arc::downgrade(ArcSlice::inner(&slice))
TDowngrade(t) ==
    /\ IdleThread(t)
    /\ views[t].live
    /\ threads[t].weak = 0
    /\ heap' = [heap EXCEPT ![views[t].underlying].weak = @ + 1]
    /\ threads' = [threads EXCEPT ![t].weak = views[t].underlying]
    /\ UNCHANGED <<kind, views, buffer, weak_buffer, observe, gate, last>>

\* let handle = weak.upgrade(): None once the strong count is zero
TUpgrade(t) ==
    /\ IdleThread(t)
    /\ threads[t].weak # 0
    /\ threads[t].handle = 0
    /\ heap[threads[t].weak].strong > 0
    /\ heap' = ArcClone(heap, threads[t].weak)
    /\ threads' = [threads EXCEPT ![t].handle = threads[t].weak]
    /\ UNCHANGED <<kind, views, buffer, weak_buffer, observe, gate, last>>

\* drop(handle)
TDropHandle(t) ==
    /\ IdleThread(t)
    /\ threads[t].handle # 0
    /\ heap' = ArcDrop(heap, threads[t].handle)
    /\ threads' = [threads EXCEPT ![t].handle = 0]
    /\ UNCHANGED <<kind, views, buffer, weak_buffer, observe, gate, last>>

\* drop(weak)
TDropWeak(t) ==
    /\ IdleThread(t)
    /\ threads[t].weak # 0
    /\ heap' = [heap EXCEPT ![threads[t].weak].weak = @ - 1]
    /\ threads' = [threads EXCEPT ![t].weak = 0]
    /\ UNCHANGED <<kind, views, buffer, weak_buffer, observe, gate, last>>

\* ArcSlice::get_mut: the uniqueness check; on success the thread holds the
\* mutable slice until TGetMutEnd
TGetMutBegin(t) ==
    /\ IdleThread(t)
    /\ views[t].live
    /\ threads' = [threads EXCEPT ![t].pc = IF GetMutOk(heap, views[t]) THEN "mutating" ELSE "idle"]
    /\ UNCHANGED <<kind, heap, views, buffer, weak_buffer, observe, gate, last>>

\* slice[0] = Written, through the mutable slice
TWrite(t) ==
    /\ threads[t].pc = "mutating"
    /\ SliceLen(views[t]) > 0
    /\ heap' = WriteThrough(heap, views[t], 0, Written)
    /\ UNCHANGED <<kind, views, buffer, weak_buffer, observe, gate, last, threads>>

\* the mutable slice goes out of scope
TGetMutEnd(t) ==
    /\ threads[t].pc = "mutating"
    /\ threads' = [threads EXCEPT ![t].pc = "idle"]
    /\ UNCHANGED <<kind, heap, views, buffer, weak_buffer, observe, gate, last>>

\* ArcSlice::shrink up to the swap: the early returns, then the placeholder
\* Arc::new(T::default()) takes the place of the view's handle
TShrinkBegin(t) ==
    /\ IdleThread(t)
    /\ views[t].live
    /\ HasFree(heap)
    /\ IF ~IsShrinkable(kind) \/ WholeSpan(heap, views[t])
       THEN UNCHANGED <<heap, views, threads>>
       ELSE LET p == PlaceholderId(heap)
            IN  /\ heap' = ArcNew(heap, p, DefaultContainer)
                /\ views' = [views EXCEPT ![t].underlying = p]
                /\ threads' = [threads EXCEPT ![t].pc = "swapped", ![t].orig = views[t].underlying]
    /\ UNCHANGED <<kind, buffer, weak_buffer, observe, gate, last>>

\* Arc::try_unwrap(temp): one compare_exchange of the strong count from 1 to 0
TShrinkUnwrap(t) ==
    /\ threads[t].pc = "swapped"
    /\ LET orig == threads[t].orig
       IN  IF ArcTryUnwrapOk(heap, orig)
           THEN /\ heap' = ArcUnwrap(heap, orig)
                /\ threads' = [threads EXCEPT
                                  ![t].pc = "unwrapped",
                                  ![t].container = [data |-> heap[orig].data,
                                                    spilled |-> heap[orig].spilled]]
           ELSE /\ heap' = heap
                /\ threads' = [threads EXCEPT ![t].pc = "failed"]
    /\ UNCHANGED <<kind, views, buffer, weak_buffer, observe, gate, last>>

\* Ok(container): shrink_container_to_range, Arc::new(container), swap; the
\* placeholder is dropped
TShrinkFinish(t) ==
    /\ threads[t].pc = "unwrapped"
    /\ HasFree(heap)
    /\ LET it == views[t]
           r == ShrinkContainerToRange(kind, threads[t].container, it.start, it.end)
           b == AdoptRange(r.range, it)
           n == NewAllocId(heap)
       IN  /\ heap' = ArcDrop(ArcNew(heap, n, r.c), it.underlying)
           /\ views' = [views EXCEPT ![t] = View(n, b.start, b.end)]
    /\ threads' = [threads EXCEPT ![t].pc = "idle", ![t].orig = 0, ![t].container = DefaultContainer]
    /\ UNCHANGED <<kind, buffer, weak_buffer, observe, gate, last>>

\* Err(temp2): the original handle is swapped back; the placeholder is dropped
TShrinkRestoreKeepPlaceholder(t) ==
    /\ threads[t].pc = "failed"
    /\ heap' = ArcDrop(heap, threads[t].orig)
    /\ views' = views
    /\ threads' = [threads EXCEPT ![t].pc = "idle", ![t].orig = 0]
    /\ UNCHANGED <<kind, buffer, weak_buffer, observe, gate, last>>

TShrinkRestore(t) ==
    /\ threads[t].pc = "failed"
    /\ heap' = ArcDrop(heap, views[t].underlying)
    /\ views' = [views EXCEPT ![t].underlying = threads[t].orig]
    /\ threads' = [threads EXCEPT ![t].pc = "idle", ![t].orig = 0]
    /\ UNCHANGED <<kind, buffer, weak_buffer, observe, gate, last>>

\* The states the threads start from: the caller has built a view of its container
\* and dropped `buffer`; thread 1 owns the view.
InitConc ==
    /\ kind \in Kinds
    /\ \E L \in 1 .. MaxLen, s \in {0, 1}, sp \in BOOLEAN :
          /\ sp => kind = "smallvec"
          /\ (kind = "smallvec" /\ L > InlineCap) => sp
          /\ heap = [a \in AllocIds |->
                        IF a = 1
                        THEN [strong |-> 1, weak |-> 0, data |-> FreshData(L), spilled |-> sp]
                        ELSE FreeAlloc]
          /\ views = [v \in ViewIds |-> IF v = 1 THEN View(1, s, L) ELSE NoView]
    /\ buffer = 0
    /\ weak_buffer = 0
    /\ observe = {}
    /\ gate = Idle
    /\ last = NoCall
    /\ threads = [t \in ThreadIds |-> NoThread]

NextConc ==
    \/ \E t \in ThreadIds, u \in ThreadIds : TSend(t, u)
    \/ \E t \in ThreadIds : TDropView(t)
    \/ \E t \in ThreadIds : TDowngrade(t)
    \/ \E t \in ThreadIds : TUpgrade(t)
    \/ \E t \in ThreadIds : TDropHandle(t)
    \/ \E t \in ThreadIds : TDropWeak(t)
    \/ \E t \in ThreadIds : TGetMutBegin(t)
    \/ \E t \in ThreadIds : TWrite(t)
    \/ \E t \in ThreadIds : TGetMutEnd(t)
    \/ \E t \in ThreadIds : TShrinkBegin(t)
    \/ \E t \in ThreadIds : TShrinkUnwrap(t)
    \/ \E t \in ThreadIds : TShrinkFinish(t)
    \/ \E t \in ThreadIds : TShrinkRestore(t)

SpecConc == InitConc /\ [][NextConc]_vars

\* C5: in every interleaving, whenever get_mut has granted a mutable slice or
\* shrink has taken the container, no other thread holds a handle or a view on that
\* container, and the thread's handle is the only strong reference there was.
C5_ExclusiveMutation ==
    \A t \in ThreadIds :
        /\ threads[t].pc = "mutating" =>
               /\ heap[views[t].underlying].strong = 1
               /\ \A u \in ThreadIds \ {t} : ~Holds(u, views[t].underlying)
        /\ threads[t].pc = "unwrapped" =>
               /\ heap[threads[t].orig].strong = 0
               /\ \A u \in ThreadIds \ {t} : ~Holds(u, threads[t].orig)

\* A thread has taken the container inside shrink, after a write through get_mut,
\* while the other thread holds a Weak on it.
C5_Witness ==
    \E t \in ThreadIds, u \in ThreadIds :
        /\ t # u
        /\ threads[t].pc = "unwrapped"
        /\ threads[u].weak = threads[t].orig
        /\ \E i \in 1 .. Len(threads[t].container.data) : threads[t].container.data[i] = Written

\* Narrowing: one view of the caller's container narrowed, split off and re-ranged,
\* every call recorded.  The caller keeps one view: after a split-off it drops one
\* of the two before its next call.
NarrowOps ==
    {"advance", "saturating_advance", "retract", "saturating_retract",
     "split_off_before", "split_off_after", "change_range"}

InitNarrow == InitWith({"boxed", "vec"}, NarrowOps)

OneView == Cardinality(LiveViews(views)) = 1

NextNarrow ==
    \/ \E a \in AllocIds, r \in OwnRanges : LiveViews(views) = {} /\ New(a, r)
    \/ \E v \in ViewIds : DropView(v)
    \/ \E v \in ViewIds, incr \in ArgVals : OneView /\ Advance(v, incr)
    \/ \E v \in ViewIds, incr \in ArgVals : OneView /\ SaturatingAdvance(v, incr)
    \/ \E v \in ViewIds, decr \in ArgVals : OneView /\ Retract(v, decr)
    \/ \E v \in ViewIds, decr \in ArgVals : OneView /\ SaturatingRetract(v, decr)
    \/ \E v \in ViewIds, index \in ArgVals : OneView /\ SplitOffBefore(v, index)
    \/ \E v \in ViewIds, index \in ArgVals : OneView /\ SplitOffAfter(v, index)
    \/ \E v \in ViewIds, r \in MainRanges : OneView /\ ChangeRange(v, r)

SpecNarrow == InitNarrow /\ [][NextNarrow]_vars

\* The container's elements at positions [s, e), 0-based.
Slice(data, s, e) == [i \in 1 .. (e - s) |-> data[s + i]]

\* The container the receiver of the recorded call pointed to, before the call.
PreData == PreBlock.data

\* C11: advance(view, incr) succeeds exactly when start + incr <= end (without
\* overflow); on success start becomes start + incr, end is unchanged and the
\* elements returned are the container's at [old start, old start + incr);
\* otherwise it returns None.
C11_Advance ==
    last.op = "advance" =>
        /\ last.ok <=> (PreView.start + last.n <= PreView.end)
        /\ last.ok =>
               /\ PostView = [PreView EXCEPT !.start = PreView.start + last.n]
               /\ last.ret = Slice(PreData, PreView.start, PreView.start + last.n)
        /\ ~last.ok => last.path = "none"

\* advance by usize::MAX on a view that does not start at 0: the sum overflows.
C11_Witness ==
    /\ last.op = "advance"
    /\ last.n = UsizeMax
    /\ PreView.start > 0
    /\ SliceLen(PreView) > 0

\* C12: retract(view, decr) succeeds exactly when decr <= end - start; on success
\* end becomes end - decr, start is unchanged and the elements returned are the
\* container's at [old end - decr, old end); otherwise (also for decr > end) it
\* returns None.
C12_Retract ==
    last.op = "retract" =>
        /\ last.ok <=> (last.n <= PreView.end - PreView.start)
        /\ last.ok =>
               /\ PostView = [PreView EXCEPT !.end = PreView.end - last.n]
               /\ last.ret = Slice(PreData, PreView.end - last.n, PreView.end)
        /\ ~last.ok => last.path = "none"

\* retract by more than the view's length but not more than its end.
C12_Witness ==
    /\ last.op = "retract"
    /\ ~last.ok
    /\ last.n > SliceLen(PreView)
    /\ last.n <= PreView.end

\* C13: saturating_advance(view, incr) never fails: the new start is
\* min(start + incr, end), end is unchanged, the elements returned are those
\* between the old and the new start, and for incr >= len(view) the view is empty.
C13_SaturatingAdvance ==
    last.op = "saturating_advance" =>
        LET cut == IF PreView.start + last.n <= PreView.end
                   THEN PreView.start + last.n ELSE PreView.end
        IN  /\ last.ok
            /\ PostView = [PreView EXCEPT !.start = cut]
            /\ last.ret = Slice(PreData, PreView.start, cut)
            /\ last.n >= SliceLen(PreView) => SliceIsEmpty(PostView)

\* saturating_advance by usize::MAX on a non-empty view that does not start at 0.
C13_Witness ==
    /\ last.op = "saturating_advance"
    /\ last.n = UsizeMax
    /\ PreView.start > 0
    /\ SliceLen(PreView) > 0

\* C14: saturating_retract(view, decr) never fails: the new end is
\* max(end - decr, start) computed without underflow, start is unchanged, and the
\* elements returned are those between the new and the old end.
C14_SaturatingRetract ==
    last.op = "saturating_retract" =>
        LET cut == IF PreView.end - last.n >= PreView.start
                   THEN PreView.end - last.n ELSE PreView.start
        IN  /\ last.ok
            /\ PostView = [PreView EXCEPT !.end = cut]
            /\ last.ret = Slice(PreData, cut, PreView.end)

\* saturating_retract by more than the view's end.
C14_Witness ==
    /\ last.op = "saturating_retract"
    /\ last.n > PreView.end
    /\ SliceLen(PreView) > 0

\* The view a recorded split-off returned.
Returned == views[last.ret[1]]

\* C15: split_off_before(view, index) with cut = start + index <= end changes view
\* to [cut, end) and returns a new view [old start, cut) on the same allocation,
\* so the returned view followed by the remaining view covers exactly the old
\* range; it returns None when cut > end or start + index overflows.
C15_SplitOffBefore ==
    last.op = "split_off_before" =>
        LET cut == PreView.start + last.n
        IN  /\ last.ok <=> cut <= PreView.end
            /\ last.ok =>
                   /\ PostView = View(PreView.underlying, cut, PreView.end)
                   /\ Returned = View(PreView.underlying, PreView.start, cut)
                   /\ Elements(heap, Returned) \o Elements(heap, PostView)
                          = Slice(PreData, PreView.start, PreView.end)
            /\ ~last.ok => last.path = "none"

\* split_off_before cut a view that does not start at 0 strictly inside its range.
C15_Witness ==
    /\ last.op = "split_off_before"
    /\ last.ok
    /\ PreView.start > 0
    /\ last.n > 0

\* C16: split_off_after(view, index) with cut = start + index <= end changes view
\* to [start, cut) and returns a new view [cut, old end) on the same allocation, so
\* the remaining view followed by the returned view covers exactly the old range;
\* it returns None when cut > end or start + index overflows.
C16_SplitOffAfter ==
    last.op = "split_off_after" =>
        LET cut == PreView.start + last.n
        IN  /\ last.ok <=> cut <= PreView.end
            /\ last.ok =>
                   /\ PostView = View(PreView.underlying, PreView.start, cut)
                   /\ Returned = View(PreView.underlying, cut, PreView.end)
                   /\ Elements(heap, PostView) \o Elements(heap, Returned)
                          = Slice(PreData, PreView.start, PreView.end)
            /\ ~last.ok => last.path = "none"

\* split_off_after with an index whose sum with start overflows.
C16_Witness ==
    /\ last.op = "split_off_after"
    /\ ~last.ok
    /\ PreView.start > 0
    /\ PreView.start + last.n > UsizeMax

\* Strict operations: one view of the caller's container, beside the caller's
\* buffer and weak handle, passed to the operations that can fail; every call of
\* those recorded.
StrictOps ==
    {"try_split_at", "split_off_before", "split_off_after", "advance", "retract",
     "get_mut", "shrink"}

InitStrict == InitWith(Kinds, StrictOps)

NextStrict ==
    \/ \E a \in AllocIds, r \in OwnRanges : LiveViews(views) = {} /\ New(a, r)
    \/ \E v \in ViewIds : DropView(v)
    \/ DropBuffer
    \/ \E a \in AllocIds : Downgrade(a)
    \/ \E v \in ViewIds, mid \in ArgVals : OneView /\ TrySplitAt(v, mid)
    \/ \E v \in ViewIds, index \in ArgVals : OneView /\ SplitOffBefore(v, index)
    \/ \E v \in ViewIds, index \in ArgVals : OneView /\ SplitOffAfter(v, index)
    \/ \E v \in ViewIds, incr \in ArgVals : OneView /\ Advance(v, incr)
    \/ \E v \in ViewIds, decr \in ArgVals : OneView /\ Retract(v, decr)
    \/ \E v \in ViewIds : OneView /\ GetMut(v, -1)
    \/ \E v \in ViewIds : OneView /\ Shrink(v)

SpecStrict == InitStrict /\ [][NextStrict]_vars

\* C17: whenever a strict operation fails (try_split_at, split_off_before,
\* split_off_after, advance, retract or get_mut returning None, shrink returning
\* false), the receiver's start, end and handle, the container's contents and the
\* allocation's reference count are exactly as before the call (and so is every
\* other view and allocation).
C17_FailureLeavesState ==
    (last.op \in StrictOps /\ ~last.ok) =>
        /\ PostView = PreView
        /\ heap[PreView.underlying].data = PreData
        /\ heap[PreView.underlying].strong = PreBlock.strong
        /\ views = last.views
        /\ heap = last.heap

\* shrink got as far as the placeholder swap and failed: the container is
\* shrinkable, the view is not the whole container, and `buffer` is still alive.
C17_Witness ==
    /\ last.op = "shrink"
    /\ ~last.ok
    /\ IsShrinkable(kind)
    /\ ~WholeSpan(last.heap, PreView)
    /\ PreBlock.strong = 2

\* Re-ranging: one view of the caller's container given every form of range by
\* change_range, every call recorded.
InitRange == InitWith({"boxed", "vec"}, {"change_range"})

NextRange ==
    \/ \E a \in AllocIds, r \in OwnRanges : LiveViews(views) = {} /\ New(a, r)
    \/ \E v \in ViewIds : DropView(v)
    \/ \E v \in ViewIds, r \in AllRanges : ChangeRange(v, r)

SpecRange == InitRange /\ [][NextRange]_vars

\* The bounds new(inner(view), r) has for the range of the recorded call.
AsNew == NewCall(last.heap, PreView.underlying, last.r).it

\* The bounds of the receiver after the recorded call.
BoundsAre(it, s, e) == it.start = s /\ it.end = e

\* C18 (as amended): for every range r whose resolved start is not greater than
\* its resolved end, the bounds of the view after change_range(view, r) equal the
\* bounds of new(inner(view), r), also for out-of-bounds ranges; for an inverted
\* range change_range lowers the start to the resolved end, where new raises the
\* end to the resolved start.  The range returned is the view's bounds.
C18_ChangeRangeVsNew ==
    last.op = "change_range" =>
        LET L == ContainerLen(PreBlock)
            s == NewStart(last.r, L)
            e == NewEnd(last.r, L)
        IN  /\ s <= e => BoundsAre(PostView, AsNew.start, AsNew.end)
            /\ s > e => (BoundsAre(PostView, e, e) /\ BoundsAre(AsNew, s, s))
            /\ last.ret = <<PostView.start, PostView.end>>
            /\ PostView.underlying = PreView.underlying

\* C18 as stated: the bounds after change_range(view, r) equal the bounds of
\* new(inner(view), r) for every range, inverted ones included.
C18_Original ==
    last.op = "change_range" => BoundsAre(PostView, AsNew.start, AsNew.end)

\* change_range with a range that reaches past the end of the container and
\* outside the view's previous window.
C18_Witness ==
    /\ last.op = "change_range"
    /\ last.r = RangeOf(Excluded(0), Included(UsizeMax))
    /\ ContainerLen(PreBlock) >= 2
    /\ PreView.end <= 1

\* C19: for every view v with bounds a..b and every k, advance(v, k) followed by
\* change_range(v, a..b) leaves v with bounds a..b and the same visible elements as
\* before the advance; the range change_range returns is the view's bounds
\* afterwards.  (No shrink lies between the two calls: any call ends the scenario.)
C19_NarrowingRoundTrip ==
    ( /\ last.op = "change_range"
      /\ last.gate.phase = "advanced"
      /\ last.gate.v = last.v
      /\ last.r = Range(last.gate.start, last.gate.end) ) =>
        /\ BoundsAre(PostView, last.gate.start, last.gate.end)
        /\ PostView.underlying = last.gate.alloc
        /\ Deref(heap, PostView).some
        /\ Elements(heap, PostView) = last.gate.elems
        /\ last.ret = <<PostView.start, PostView.end>>

\* An advance that shed elements of a view inside the container, then change_range
\* back to the bounds the view had.
C19_Witness ==
    /\ last.op = "change_range"
    /\ last.gate.phase = "advanced"
    /\ last.gate.v = last.v
    /\ last.r = Range(last.gate.start, last.gate.end)
    /\ PreView.start > last.gate.start
    /\ last.gate.end < ContainerLen(PreBlock)

\* ------------------------------------------------------------------ ptr_eq

\* let other_buffer: Arc<T> = Arc::new(<L elements>);
\* let other_slice = ArcSlice::new(&other_buffer, r);
\* A second container with the elements the first was built with; its handle goes
\* out of scope once the view exists.
NewOther(L, r) ==
    /\ HasFree(heap)
    /\ FreeSlots(views) # {}
    /\ LET a == NewAllocId(heap)
           h == ArcNew(heap, a, [data |-> FreshData(L),
                                 spilled |-> kind = "smallvec" /\ L > InlineCap])
           c == NewCall(h, a, r)
           v == Slot1(views)
       IN  /\ heap' = ArcDrop(c.heap, a)
           /\ views' = [views EXCEPT ![v] = c.it]
           /\ last' = Log(Call("new_other", v, a, r, TRUE, "ok", <<c.it.start, c.it.end>>))
           /\ gate' = GateAfter("new_other", TRUE, a, heap')
    /\ UNCHANGED <<kind, buffer, weak_buffer, observe, threads>>

\* ArcSlice::ptr_eq(&this, &other)
PtrEqCall(v, w) ==
    /\ views[v].live
    /\ views[w].live
    /\ last' = Log(Call("ptr_eq", v, w, NoRange, TRUE, "ok", <<PtrEq(views[v], views[w])>>))
    /\ gate' = GateAfter("ptr_eq", TRUE, views[v].underlying, heap)
    /\ UNCHANGED <<kind, heap, views, buffer, weak_buffer, observe, threads>>

InitPtr == InitWith({"boxed", "vec"}, {"ptr_eq"})

\* Two views are enough for a comparison.
RoomForView == Cardinality(LiveViews(views)) < 2

NextPtr ==
    \/ \E a \in AllocIds, r \in OwnRanges : RoomForView /\ New(a, r)
    \/ \E L \in 0 .. MaxLen, r \in OwnRanges : RoomForView /\ NewOther(L, r)
    \/ \E v \in ViewIds : RoomForView /\ Clone(v)
    \/ \E v \in ViewIds : DropView(v)
    \/ \E v \in ViewIds, w \in ViewIds : PtrEqCall(v, w)

SpecPtr == InitPtr /\ [][NextPtr]_vars

\* The two views a recorded ptr_eq compared.
This == views[last.v]

Other == views[last.n]

\* C20: ptr_eq(a, b) is true if and only if a and b are views of the identical
\* allocation with equal start and equal end; views of distinct allocations with
\* equal elements are not ptr_eq, and views of one allocation with different
\* ranges are not ptr_eq.
C20_PtrEq ==
    last.op = "ptr_eq" =>
        /\ last.ret[1] <=> ( /\ This.underlying = Other.underlying
                             /\ This.start = Other.start
                             /\ This.end = Other.end )
        /\ ( /\ This.underlying # Other.underlying
             /\ Elements(heap, This) = Elements(heap, Other) ) => ~last.ret[1]
        /\ ( /\ This.underlying = Other.underlying
             /\ <<This.start, This.end>> # <<Other.start, Other.end>> ) => ~last.ret[1]

\* Two views with the same bounds and the same, non-empty, elements in two
\* allocations were compared.
C20_Witness ==
    /\ last.op = "ptr_eq"
    /\ This.underlying # Other.underlying
    /\ BoundsAre(This, Other.start, Other.end)
    /\ SliceLen(This) > 0
    /\ Elements(heap, This) = Elements(heap, Other)
    /\ ~last.ret[1]

\* ------------------------------------------- equality, ordering and hashing

\* PartialEq for the container ([T], Box<[T]>, Vec<T>, SmallVec): element-wise
ContainerEq(c, d) == c.data = d.data

\* Ord for the container: lexicographic
RECURSIVE SeqCmp(_, _)
SeqCmp(s, t) ==
    IF s = <<>> /\ t = <<>> THEN "Equal"
    ELSE IF s = <<>> THEN "Less"
    ELSE IF t = <<>> THEN "Greater"
    ELSE IF Head(s) < Head(t) THEN "Less"
    ELSE IF Head(s) > Head(t) THEN "Greater"
    ELSE SeqCmp(Tail(s), Tail(t))

\* PartialEq for ArcSlice: self.underlying == other.underlying
SliceEq(h, this, other) == ContainerEq(h[this.underlying], h[other.underlying])

\* Ord / PartialOrd for ArcSlice: self.underlying.cmp(&other.underlying)
SliceCmp(h, this, other) == SeqCmp(h[this.underlying].data, h[other.underlying].data)

\* Hash for ArcSlice: Hash::hash_slice(self.deref(), state); the elements fed to
\* the hasher, in order
SliceHash(h, it) == Elements(h, it)

\* this == other
EqCall(v, w) ==
    /\ views[v].live
    /\ views[w].live
    /\ last' = Log(Call("eq", v, w, NoRange, TRUE, "ok", <<SliceEq(heap, views[v], views[w])>>))
    /\ gate' = GateAfter("eq", TRUE, views[v].underlying, heap)
    /\ UNCHANGED <<kind, heap, views, buffer, weak_buffer, observe, threads>>

\* this.cmp(&other)
CmpCall(v, w) ==
    /\ views[v].live
    /\ views[w].live
    /\ last' = Log(Call("cmp", v, w, NoRange, TRUE, "ok", <<SliceCmp(heap, views[v], views[w])>>))
    /\ gate' = GateAfter("cmp", TRUE, views[v].underlying, heap)
    /\ UNCHANGED <<kind, heap, views, buffer, weak_buffer, observe, threads>>

\* this.hash(&mut state); other.hash(&mut state2)
HashCall(v, w) ==
    /\ views[v].live
    /\ views[w].live
    /\ last' = Log(Call("hash", v, w, NoRange, TRUE, "ok",
                        <<SliceHash(heap, views[v]), SliceHash(heap, views[w])>>))
    /\ gate' = GateAfter("hash", TRUE, views[v].underlying, heap)
    /\ UNCHANGED <<kind, heap, views, buffer, weak_buffer, observe, threads>>

InitEq == InitWith({"boxed", "vec"}, {"eq", "cmp", "hash"})

NextEq ==
    \/ \E a \in AllocIds, r \in OwnRanges : RoomForView /\ New(a, r)
    \/ \E L \in 0 .. MaxLen, r \in OwnRanges : RoomForView /\ NewOther(L, r)
    \/ \E v \in ViewIds : DropView(v)
    \/ \E v \in ViewIds, w \in ViewIds : EqCall(v, w)
    \/ \E v \in ViewIds, w \in ViewIds : CmpCall(v, w)
    \/ \E v \in ViewIds, w \in ViewIds : HashCall(v, w)

SpecEq == InitEq /\ [][NextEq]_vars

\* C21: equality, ordering and hashing of two views are determined by their
\* visible elements only: the views are equal exactly when their visible element
\* sequences are equal, ordered as those sequences are, and hash alike when equal.
C21_Original ==
    /\ last.op = "eq" => (last.ret[1] <=> (Elements(heap, This) = Elements(heap, Other)))
    /\ last.op = "cmp" => last.ret[1] = SeqCmp(Elements(heap, This), Elements(heap, Other))
    /\ last.op = "hash" =>
          ((Elements(heap, This) = Elements(heap, Other)) => last.ret[1] = last.ret[2])

\* ------------------------------------------------------- RcSlice (src/rc.rs)

\* The operations of impl RcSlice and of its trait impls
RcSliceOps ==
    {"new", "clone", "drop", "len", "is_empty", "split_at", "try_split_at",
     "split_off_before", "split_off_after", "bounds", "inner", "bounds_range",
     "advance", "saturating_advance", "retract", "saturating_retract",
     "change_range", "get_mut", "ptr_eq", "eq", "cmp", "hash"}

\* The operations of impl ArcSlice and of its trait impls
ArcSliceOps == RcSliceOps \cup {"shrink"}

\* &underlying[s..e] on Rc<[T]>: None is the index that panics
RcIndex(c, s, e) ==
    IF s <= e /\ e <= Len(c.data) THEN Some(SubSeq(c.data, s + 1, e)) ELSE None

\* RcSlice::new
RcNewBounds(r, len) ==
    LET start ==
            CASE r.sb.kind = "Excluded" -> Min(SaturatingAdd(r.sb.x, 1), len)
              [] r.sb.kind = "Included" -> Min(r.sb.x, len)
              [] OTHER -> 0
        end ==
            CASE r.eb.kind = "Excluded" -> Min(r.eb.x, len)
              [] r.eb.kind = "Included" -> Min(SaturatingAdd(r.eb.x, 1), len)
              [] OTHER -> len
    IN  [start |-> start, end |-> Max(start, end)]

\* RcSlice::split_at (after its assertion) and RcSlice::try_split_at
RcTrySplitAtOk(it, mid) == mid <= it.end - it.start

RcSplitAtBounds(h, it, mid) ==
    LET real_mid == it.start + mid
        len == Len(h[it.underlying].data)
    IN  [low |-> RcNewBounds(Range(it.start, real_mid), len),
         high |-> RcNewBounds(Range(real_mid, it.end), len)]

\* RcSlice::split_off_before: [ok, it, ret] as bounds
RcSplitOffBeforeCall(it, index) ==
    LET cut == CheckedAdd(it.start, index)
    IN  IF cut.some /\ cut.val <= it.end
        THEN [ok |-> TRUE, it |-> [start |-> cut.val, end |-> it.end],
              ret |-> [start |-> it.start, end |-> cut.val]]
        ELSE [ok |-> FALSE, it |-> [start |-> it.start, end |-> it.end],
              ret |-> [start |-> 0, end |-> 0]]

\* RcSlice::split_off_after
RcSplitOffAfterCall(it, index) ==
    LET cut == CheckedAdd(it.start, index)
    IN  IF cut.some /\ cut.val <= it.end
        THEN [ok |-> TRUE, it |-> [start |-> it.start, end |-> cut.val],
              ret |-> [start |-> cut.val, end |-> it.end]]
        ELSE [ok |-> FALSE, it |-> [start |-> it.start, end |-> it.end],
              ret |-> [start |-> 0, end |-> 0]]

\* RcSlice::advance: [ok, path, it, ret]
RcAdvanceCall(h, it, incr) ==
    LET cut == CheckedAdd(it.start, incr)
    IN  IF cut.some /\ cut.val <= it.end
        THEN LET shed == RcIndex(h[it.underlying], it.start, cut.val)
             IN  IF shed.some
                 THEN [ok |-> TRUE, path |-> "ok",
                       it |-> [start |-> cut.val, end |-> it.end], ret |-> shed.val]
                 ELSE [ok |-> FALSE, path |-> "panic",
                       it |-> [start |-> it.start, end |-> it.end], ret |-> <<>>]
        ELSE [ok |-> FALSE, path |-> "none",
              it |-> [start |-> it.start, end |-> it.end], ret |-> <<>>]

\* RcSlice::saturating_advance
RcSaturatingAdvanceCall(h, it, incr) ==
    LET cut == Min(SaturatingAdd(it.start, incr), it.end)
        shed == RcIndex(h[it.underlying], it.start, cut)
    IN  IF shed.some
        THEN [ok |-> TRUE, path |-> "ok", it |-> [start |-> cut, end |-> it.end], ret |-> shed.val]
        ELSE [ok |-> FALSE, path |-> "panic",
              it |-> [start |-> it.start, end |-> it.end], ret |-> <<>>]

\* RcSlice::retract
RcRetractCall(h, it, decr) ==
    LET cut == CheckedSub(it.end, decr)
    IN  IF cut.some /\ cut.val >= it.start
        THEN LET shed == RcIndex(h[it.underlying], cut.val, it.end)
             IN  IF shed.some
                 THEN [ok |-> TRUE, path |-> "ok",
                       it |-> [start |-> it.start, end |-> cut.val], ret |-> shed.val]
                 ELSE [ok |-> FALSE, path |-> "panic",
                       it |-> [start |-> it.start, end |-> it.end], ret |-> <<>>]
        ELSE [ok |-> FALSE, path |-> "none",
              it |-> [start |-> it.start, end |-> it.end], ret |-> <<>>]

\* RcSlice::saturating_retract
RcSaturatingRetractCall(h, it, decr) ==
    LET cut == Max(SaturatingSub(it.end, decr), it.start)
        shed == RcIndex(h[it.underlying], cut, it.end)
    IN  IF shed.some
        THEN [ok |-> TRUE, path |-> "ok", it |-> [start |-> it.start, end |-> cut], ret |-> shed.val]
        ELSE [ok |-> FALSE, path |-> "panic",
              it |-> [start |-> it.start, end |-> it.end], ret |-> <<>>]

\* RcSlice::change_range
RcChangeRangeBounds(r, len) ==
    LET start0 ==
            CASE r.sb.kind = "Excluded" -> Min(SaturatingAdd(r.sb.x, 1), len)
              [] r.sb.kind = "Included" -> Min(r.sb.x, len)
              [] OTHER -> 0
        end ==
            CASE r.eb.kind = "Excluded" -> Min(r.eb.x, len)
              [] r.eb.kind = "Included" -> Min(SaturatingAdd(r.eb.x, 1), len)
              [] OTHER -> len
    IN  [start |-> Min(start0, end), end |-> end]

\* RcSlice::get_mut: Rc::get_mut succeeds iff there is no other Rc and no Weak;
\* the index s[start..end] then panics if out of range
RcGetMutOk(h, it) ==
    /\ h[it.underlying].strong = 1
    /\ h[it.underlying].weak = 0
    /\ RcIndex(h[it.underlying], it.start, it.end).some

\* RcSlice::ptr_eq
RcPtrEq(this, other) ==
    /\ this.underlying = other.underlying
    /\ this.start = other.start
    /\ this.end = other.end

\* Deref for RcSlice
RcDeref(h, it) == RcIndex(h[it.underlying], it.start, it.end).val

\* PartialEq for RcSlice: self.deref() == other.deref()
RcSliceEq(h, this, other) == RcDeref(h, this) = RcDeref(h, other)

\* Ord for RcSlice: self.deref().cmp(other.deref())
RcSliceCmp(h, this, other) == SeqCmp(RcDeref(h, this), RcDeref(h, other))

\* Hash for RcSlice: Hash::hash_slice(self.deref(), state)
RcSliceHash(h, it) == RcDeref(h, it)

\* Both types driven by the same calls: the state is ArcSlice's, and each recorded
\* call is compared with what RcSlice computes from the state before it.
BothOps ==
    {"new", "try_split_at", "split_off_before", "split_off_after", "advance",
     "saturating_advance", "retract", "saturating_retract", "change_range",
     "get_mut", "ptr_eq", "eq", "cmp", "hash", "shrink"}

\* RcSlice holds an Rc<[T]>: the containers both types accept are slices.
InitBoth == InitWith({"boxed"}, BothOps)

NextBoth ==
    \/ \E a \in AllocIds, r \in OwnRanges : RoomForView /\ New(a, r)
    \/ \E v \in ViewIds : DropView(v)
    \/ DropBuffer
    \/ \E v \in ViewIds, mid \in ArgVals : OneView /\ TrySplitAt(v, mid)
    \/ \E v \in ViewIds, index \in ArgVals : OneView /\ SplitOffBefore(v, index)
    \/ \E v \in ViewIds, index \in ArgVals : OneView /\ SplitOffAfter(v, index)
    \/ \E v \in ViewIds, incr \in ArgVals : OneView /\ Advance(v, incr)
    \/ \E v \in ViewIds, incr \in ArgVals : OneView /\ SaturatingAdvance(v, incr)
    \/ \E v \in ViewIds, decr \in ArgVals : OneView /\ Retract(v, decr)
    \/ \E v \in ViewIds, decr \in ArgVals : OneView /\ SaturatingRetract(v, decr)
    \/ \E v \in ViewIds, r \in MainRanges : OneView /\ ChangeRange(v, r)
    \/ \E v \in ViewIds : OneView /\ GetMut(v, -1)
    \/ \E v \in ViewIds : OneView /\ Shrink(v)
    \/ \E v \in ViewIds, w \in ViewIds : v < w /\ PtrEqCall(v, w)
    \/ \E v \in ViewIds, w \in ViewIds : v < w /\ EqCall(v, w)
    \/ \E v \in ViewIds, w \in ViewIds : v < w /\ CmpCall(v, w)
    \/ \E v \in ViewIds, w \in ViewIds : v < w /\ HashCall(v, w)

SpecBoth == InitBoth /\ [][NextBoth]_vars

\* start..end of a view
Bnds(it) == [start |-> it.start, end |-> it.end]

\* The recorded call of a narrowing operation agrees with RcSlice's result c.
SameNarrowing(c) ==
    /\ last.path = c.path
    /\ Bnds(PostView) = c.it
    /\ last.ret = c.ret

\* The recorded call of split_off_before / split_off_after agrees with RcSlice's c.
SameSplitOff(c) ==
    /\ last.ok = c.ok
    /\ Bnds(PostView) = c.it
    /\ last.ok => Bnds(Returned) = c.ret

\* The parts of the equivalence, one per kind of operation
SameOperations == last.op \in ArcSliceOps => last.op \in RcSliceOps

SameBounds ==
    /\ last.op = "new" =>
          Bnds(PostView) = RcNewBounds(last.r, Len(last.heap[last.n].data))
    /\ last.op = "change_range" =>
          LET b == RcChangeRangeBounds(last.r, Len(PreBlock.data))
          IN  Bnds(PostView) = b /\ last.ret = <<b.start, b.end>>
    /\ last.op = "advance" => SameNarrowing(RcAdvanceCall(last.heap, PreView, last.n))
    /\ last.op = "saturating_advance" =>
          SameNarrowing(RcSaturatingAdvanceCall(last.heap, PreView, last.n))
    /\ last.op = "retract" => SameNarrowing(RcRetractCall(last.heap, PreView, last.n))
    /\ last.op = "saturating_retract" =>
          SameNarrowing(RcSaturatingRetractCall(last.heap, PreView, last.n))
    /\ last.op = "split_off_before" => SameSplitOff(RcSplitOffBeforeCall(PreView, last.n))
    /\ last.op = "split_off_after" => SameSplitOff(RcSplitOffAfterCall(PreView, last.n))
    /\ last.op = "try_split_at" =>
          /\ last.ok = RcTrySplitAtOk(PreView, last.n)
          /\ last.ok => LET c == RcSplitAtBounds(last.heap, PreView, last.n)
                        IN  Bnds(Low) = c.low /\ Bnds(High) = c.high

SameAnswers ==
    /\ last.op = "get_mut" => (last.ok <=> RcGetMutOk(last.heap, PreView))
    /\ last.op = "ptr_eq" => (last.ret[1] <=> RcPtrEq(This, Other))
    /\ last.op = "eq" => (last.ret[1] <=> RcSliceEq(heap, This, Other))
    /\ last.op = "cmp" => last.ret[1] = RcSliceCmp(heap, This, Other)
    /\ last.op = "hash" =>
          last.ret = <<RcSliceHash(heap, This), RcSliceHash(heap, Other)>>

\* C22: RcSlice and ArcSlice are functionally identical: they offer the same
\* operations, and every operation applied to both over equal containers returns
\* the same result and leaves the same bounds and visible elements.
C22_Original == SameOperations /\ SameBounds /\ SameAnswers

\* A recorded shrink of a view that does not span its (shrinkable) container.
ShrinkAttempt ==
    /\ last.op = "shrink"
    /\ IsShrinkable(kind)
    /\ ~WholeSpan(last.heap, PreView)

\* C23 (as amended): on a view over a shrinkable container that does not span the
\* whole container, shrink succeeds exactly when the view holds the only strong
\* handle of the allocation, whether or not weak references exist.  Without weak
\* references that is exactly when get_mut on the view would return a slice; with a
\* weak reference and a sole strong handle shrink succeeds and get_mut would not.
C23_ShrinkOwnershipTest ==
    ShrinkAttempt =>
        /\ last.ok <=> PreBlock.strong = 1
        /\ PreBlock.weak = 0 => (last.ok <=> GetMutOk(last.heap, PreView))
        /\ (PreBlock.weak > 0 /\ PreBlock.strong = 1) =>
              (last.ok /\ ~GetMutOk(last.heap, PreView))

\* C23 as stated: shrink succeeds exactly when get_mut would return a slice,
\* weak references included.
C23_Original == ShrinkAttempt => (last.ok <=> GetMutOk(last.heap, PreView))

\* A shrink that succeeded while a weak reference to the container existed.
C23_Witness ==
    /\ ShrinkAttempt
    /\ last.ok
    /\ PreBlock.weak > 0
    /\ ~GetMutOk(last.heap, PreView)

\* Weak::upgrade on a weak handle to allocation w would return Some
Upgradable(h, w) == w # 0 /\ h[w].strong > 0

\* The caller's weak handle was taken, before the recorded call, to the container
\* of the view the call was made on.
WeakToShrunk ==
    /\ last.op = "shrink"
    /\ weak_buffer # 0
    /\ weak_buffer = PreView.underlying

\* C24: after a successful shrink a weak reference taken to the container before
\* the call cannot be upgraded, and never can again; after a failed shrink it can
\* still be upgraded.
C24_WeakAfterShrink ==
    /\ [](WeakToShrunk => (last.ok <=> ~Upgradable(heap, weak_buffer)))
    /\ [][(/\ weak_buffer # 0
           /\ ~Upgradable(heap, weak_buffer)
           /\ weak_buffer' = weak_buffer) => ~Upgradable(heap', weak_buffer')]_vars

\* A shrink succeeded on a container the caller holds a weak handle to.
C24_Witness == WeakToShrunk /\ last.ok /\ PreBlock.weak > 0

\* ------------------------------------------------------------ frame effects

\* The operations that only read the container
ReadOnlyOps ==
    {"new", "clone", "split_at", "try_split_at", "split_off_before", "split_off_after",
     "advance", "saturating_advance", "retract", "saturating_retract", "change_range"}

\* Every operation on a view of the caller's Vec, each call recorded with the state
\* before it.
InitFrame == InitWith({"vec"}, ReadOnlyOps \cup {"get_mut", "shrink"})

NextFrame ==
    \/ \E a \in AllocIds, r \in OwnRanges : LiveViews(views) = {} /\ New(a, r)
    \/ \E v \in ViewIds : OneView /\ Clone(v)
    \/ \E v \in ViewIds : DropView(v)
    \/ DropBuffer
    \/ \E v \in ViewIds, mid \in ArgVals : OneView /\ SplitAt(v, mid)
    \/ \E v \in ViewIds, mid \in ArgVals : OneView /\ TrySplitAt(v, mid)
    \/ \E v \in ViewIds, index \in ArgVals : OneView /\ SplitOffBefore(v, index)
    \/ \E v \in ViewIds, index \in ArgVals : OneView /\ SplitOffAfter(v, index)
    \/ \E v \in ViewIds, incr \in ArgVals : OneView /\ Advance(v, incr)
    \/ \E v \in ViewIds, incr \in ArgVals : OneView /\ SaturatingAdvance(v, incr)
    \/ \E v \in ViewIds, decr \in ArgVals : OneView /\ Retract(v, decr)
    \/ \E v \in ViewIds, decr \in ArgVals : OneView /\ SaturatingRetract(v, decr)
    \/ \E v \in ViewIds, r \in OwnRanges : OneView /\ ChangeRange(v, r)
    \/ \E v \in ViewIds : OneView /\ GetMut(v, -1)
    \/ \E v \in ViewIds : OneView /\ Shrink(v)

SpecFrame == InitFrame /\ [][NextFrame]_vars

\* The container behind each allocation: its elements, in order, and its storage.
Containers(h) == [a \in AllocIds |-> [data |-> h[a].data, spilled |-> h[a].spilled]]

\* C25: new, clone, split_at, try_split_at, split_off_before, split_off_after,
\* advance, saturating_advance, retract, saturating_retract and change_range leave
\* every container as it was: the same length and the same elements, inside and
\* outside any view.
C25_ContainerFrame ==
    last.op \in ReadOnlyOps => Containers(heap) = Containers(last.heap)

\* A view that hides elements of its container was narrowed or split again, and
\* the container still has the elements the view does not show.
C25_Witness ==
    /\ last.op \in ReadOnlyOps \ {"new", "clone"}
    /\ last.ok
    /\ SliceLen(PreView) > SliceLen(PostView)
    /\ ContainerLen(heap[PostView.underlying]) > SliceLen(PostView)

\* Two views, of the caller's Vec or of a second one, and every operation on one
\* of them while the other exists, each call recorded with the state before it.
PairOps ==
    {"clone", "try_split_at", "split_off_before", "split_off_after", "advance",
     "saturating_advance", "retract", "saturating_retract", "change_range",
     "get_mut", "shrink"}

InitPair == InitWith({"vec"}, PairOps)

TwoViews == Cardinality(LiveViews(views)) = 2

\* Every live view is a view of the caller's buffer.
NoOther == \A v \in LiveViews(views) : views[v].underlying = buffer

\* The caller drops its views in the reverse order of their creation.
LastMade(v) == \A w \in LiveViews(views) : w <= v

\* Slot v holds the second of two views: the one the caller works on.
Second(v) == TwoViews /\ LastMade(v)

\* What the caller passes: one element, or more than there are; a range at the
\* front, one at the back, and `..`
PairArgs == {1, MaxLen + 1}

PairRanges == {Range(0, 1), Range(1, MaxLen), RangeFull}

NextPair ==
    \/ \E a \in AllocIds, r \in PairRanges : LiveViews(views) = {} /\ New(a, r)
    \/ \E a \in AllocIds, r \in OwnRanges : OneView /\ New(a, r)
    \/ \E r \in PairRanges : RoomForView /\ NoOther /\ NewOther(MaxLen, r)
    \/ \E v \in ViewIds : LastMade(v) /\ DropView(v)
    \/ \E v \in ViewIds : Second(v) /\ Clone(v)
    \/ \E v \in ViewIds, mid \in PairArgs : Second(v) /\ TrySplitAt(v, mid)
    \/ \E v \in ViewIds, index \in PairArgs : Second(v) /\ SplitOffBefore(v, index)
    \/ \E v \in ViewIds, index \in PairArgs : Second(v) /\ SplitOffAfter(v, index)
    \/ \E v \in ViewIds, incr \in PairArgs : Second(v) /\ Advance(v, incr)
    \/ \E v \in ViewIds, incr \in PairArgs : Second(v) /\ SaturatingAdvance(v, incr)
    \/ \E v \in ViewIds, decr \in PairArgs : Second(v) /\ Retract(v, decr)
    \/ \E v \in ViewIds, decr \in PairArgs : Second(v) /\ SaturatingRetract(v, decr)
    \/ \E v \in ViewIds, r \in PairRanges : Second(v) /\ ChangeRange(v, r)
    \/ \E v \in ViewIds, i \in {-1, 0} : Second(v) /\ GetMut(v, i)
    \/ \E v \in ViewIds : Second(v) /\ Shrink(v)

SpecPair == InitPair /\ [][NextPair]_vars

\* The views other than the receiver of the recorded call that existed before it.
Bystanders == {w \in ViewIds \ {last.v} : last.views[w].live}

\* C26: every operation applied to a view A, a successful write through get_mut or
\* a successful shrink included, leaves every other live view B, of the same or of
\* another container, with the start, end, handle and visible elements it had.
C26_ViewFrame ==
    last.op \in PairOps =>
        \A w \in Bystanders :
            /\ views[w] = last.views[w]
            /\ Deref(heap, views[w]).some
            /\ Elements(heap, views[w]) = Elements(last.heap, last.views[w])

\* A changed its container (a write through get_mut, or a successful shrink) while
\* another view with elements to show existed.
C26_Witness ==
    /\ last.op \in {"get_mut", "shrink"}
    /\ last.ok
    /\ Containers(heap) # Containers(last.heap)
    /\ \E w \in Bystanders : SliceLen(views[w]) > 0

\* ---------------------------------------------------------- reference count

\* The operations that make or drop a handle, on the views of the caller's Vec,
\* each call recorded with the state before it.
CountOps == {"new", "clone", "split_at", "split_off_before", "split_off_after", "drop"}

InitCount == InitWith({"vec"}, CountOps)

NextCount ==
    \/ \E a \in AllocIds, r \in OwnRanges : RoomForView /\ New(a, r)
    \/ \E v \in ViewIds : RoomForView /\ Clone(v)
    \/ \E v \in ViewIds : DropView(v)
    \/ DropBuffer
    \/ \E v \in ViewIds : CloneInner(v)
    \/ \E v \in ViewIds, mid \in ArgVals : OneView /\ SplitAt(v, mid)
    \/ \E v \in ViewIds, index \in ArgVals : RoomForView /\ SplitOffBefore(v, index)
    \/ \E v \in ViewIds, index \in ArgVals : RoomForView /\ SplitOffAfter(v, index)
    \/ \E v \in ViewIds : OneView /\ Shrink(v)

SpecCount == InitCount /\ [][NextCount]_vars

\* The live handles on allocation a: the views of it, and the caller's buffer.
Handles(vs, buf, a) ==
    Cardinality({v \in LiveViews(vs) : vs[v].underlying = a}) + (IF buf = a THEN 1 ELSE 0)

\* The strong count of allocation a is k more than before the recorded call.
Delta(a, k) == heap[a].strong = last.heap[a].strong + k

\* C27: the reference count of an allocation equals the number of live views plus
\* live external handles on it, and a live view always has its container; new and
\* clone add one, split_at adds two, a successful split_off_before or
\* split_off_after adds one, drop subtracts one, and the container is released
\* exactly when the count reaches zero.
C27_RefCount ==
    /\ \A a \in AllocIds :
          /\ heap[a].strong = Handles(views, buffer, a)
          /\ heap[a].strong = 0 => heap[a].data = <<>>
    /\ \A v \in LiveViews(views) :
          /\ heap[views[v].underlying].strong > 0
          /\ Deref(heap, views[v]).some
    /\ last.op = "new" => Delta(last.n, 1)
    /\ last.op = "clone" => Delta(PreView.underlying, 1)
    /\ last.op = "split_at" => Delta(PreView.underlying, IF last.ok THEN 2 ELSE 0)
    /\ last.op \in {"split_off_before", "split_off_after"} =>
          Delta(PreView.underlying, IF last.ok THEN 1 ELSE 0)
    /\ last.op = "drop" =>
          /\ Delta(PreView.underlying, -1)
          /\ heap[PreView.underlying].strong > 0 =>
                heap[PreView.underlying].data = PreBlock.data

\* The last handle of a container with elements was dropped: a view, after the
\* caller's buffer.
C27_Witness ==
    /\ last.op = "drop"
    /\ PreBlock.strong = 1
    /\ PreBlock.data # <<>>
    /\ heap[PreView.underlying].strong = 0

\* The recorded call changed no allocation and no view.
NothingChanged == heap = last.heap /\ views = last.views

\* C28: on a container type that is not shrinkable (slice, boxed slice) shrink
\* returns false and changes nothing, whether or not the view is the sole owner;
\* the path that unwraps the container and calls shrink_container_to_range is not
\* taken, so no allocation is replaced.
C28_NotShrinkable ==
    (last.op = "shrink" /\ kind = "boxed") => (~last.ok /\ NothingChanged)

\* shrink on a view that is the sole owner of a boxed slice and hides some of it.
C28_Witness ==
    /\ last.op = "shrink"
    /\ kind = "boxed"
    /\ PreBlock.strong = 1
    /\ ~WholeSpan(last.heap, PreView)

\* C29: when the view spans the whole container (start = 0 and end = the
\* container's length) shrink returns false and changes nothing, whether or not
\* the view is the sole owner: no placeholder is left and no allocation replaced.
C29_WholeSpan ==
    (last.op = "shrink" /\ WholeSpan(last.heap, PreView)) => (~last.ok /\ NothingChanged)

\* shrink on a view that is the sole owner of a shrinkable container with
\* elements and spans all of it.
C29_Witness ==
    /\ last.op = "shrink"
    /\ kind # "boxed"
    /\ WholeSpan(last.heap, PreView)
    /\ PreBlock.strong = 1
    /\ PreBlock.data # <<>>

\* Thread t is inside shrink, between the swap and the end of the call.
InShrink(t) == threads[t].pc \in {"swapped", "unwrapped", "failed"}

\* C30: at every step of shrink the view holds a live handle (the original, the
\* placeholder, or the re-wrapped container); when shrink fails because the
\* container is not uniquely owned, the view gets the original allocation back
\* with the same start and end, and no step of the failing call changes the
\* allocation's reference count.
C30_ShrinkKeepsHandle ==
    /\ [](\A t \in ThreadIds :
            /\ views[t].live => heap[views[t].underlying].strong > 0
            /\ InShrink(t) =>
                  /\ views[t].live
                  /\ views[t].underlying # threads[t].orig
                  /\ heap[views[t].underlying].strong = 1
                  /\ threads[t].pc # "unwrapped" => heap[threads[t].orig].strong > 0)
    /\ [][\A t \in ThreadIds :
            /\ (threads[t].pc = "swapped" /\ threads'[t].pc = "failed") =>
                  /\ views'[t] = views[t]
                  /\ heap'[threads[t].orig].strong = heap[threads[t].orig].strong
            /\ (threads[t].pc = "idle" /\ threads'[t].pc = "swapped") =>
                  /\ views'[t].start = views[t].start /\ views'[t].end = views[t].end
                  /\ threads'[t].orig = views[t].underlying
                  /\ heap'[views[t].underlying].strong = heap[views[t].underlying].strong
            /\ (threads[t].pc = "failed" /\ threads'[t].pc = "idle") =>
                  /\ views'[t].live
                  /\ views'[t].underlying = threads[t].orig
                  /\ views'[t].start = views[t].start /\ views'[t].end = views[t].end
                  /\ heap'[threads[t].orig].strong = heap[threads[t].orig].strong
                  /\ heap'[views[t].underlying].strong = 0]_vars

\* Inside shrink, try_unwrap has failed on a container another thread shares: the
\* view holds the placeholder, the original allocation is about to be put back.
C30_Witness ==
    \E t \in ThreadIds, u \in ThreadIds :
        /\ t # u
        /\ threads[t].pc = "failed"
        /\ views[t].underlying # threads[t].orig
        /\ Holds(u, threads[t].orig)
        /\ heap[threads[t].orig].strong >= 2

\* ------------------------------------------ Vec::shrink_container_to_range alone

\* Element values of the Vec the caller builds (repeats allowed).
VecElems == {11, 12}

\* Every Vec of at most MaxLen elements.
VecData == UNION {[1 .. L -> VecElems] : L \in 0 .. MaxLen}

\* let mut v: Vec<u8> = ...; owned by the caller, no view of it.
InitVec ==
    /\ kind = "vec"
    /\ \E d \in VecData :
          heap = [a \in AllocIds |->
                     IF a = 1 THEN [strong |-> 1, weak |-> 0, data |-> d, spilled |-> FALSE]
                     ELSE FreeAlloc]
    /\ views = [v \in ViewIds |-> NoView]
    /\ buffer = 1
    /\ weak_buffer = 0
    /\ observe = {"shrink_container_to_range"}
    /\ gate = Idle
    /\ last = NoCall
    /\ threads = [t \in ThreadIds |-> NoThread]

\* let r = v.shrink_container_to_range(s..e)
VecShrinkCall(s, e) ==
    /\ LET c == VecShrinkContainerToRange(heap[buffer], s, e)
       IN  /\ heap' = [heap EXCEPT ![buffer] = c.c]
           /\ last' = Log(Call("shrink_container_to_range", 0, buffer, Range(s, e), TRUE, "ok",
                               <<c.range.val.start, c.range.val.end>>))
    /\ UNCHANGED <<kind, views, buffer, weak_buffer, observe, gate, threads>>

NextVec == \E s \in ArgVals, e \in ArgVals : VecShrinkCall(s, e)

SpecVec == InitVec /\ [][NextVec]_vars

\* The keep range of the recorded shrink_container_to_range call, and the Vec before it.
KeepStart == last.r.sb.x

KeepEnd == last.r.eb.x

VecBefore == last.heap[last.n].data

\* C31: Vec's shrink_container_to_range(keep) with keep.start <= keep.end <= length
\* leaves exactly the elements that were at keep, in their original order, and returns
\* 0..new length, which indexes exactly those elements; an empty keep leaves an empty Vec.
C31_VecShrinkToRange ==
    (/\ last.op = "shrink_container_to_range"
     /\ KeepStart <= KeepEnd
     /\ KeepEnd <= Len(VecBefore)) =>
        LET after == heap[last.n]
        IN  /\ Len(after.data) = KeepEnd - KeepStart
            /\ \A i \in 1 .. (KeepEnd - KeepStart) : after.data[i] = VecBefore[KeepStart + i]
            /\ last.ret = <<0, Len(after.data)>>
            /\ ContainerGet(after, last.ret[1], last.ret[2])
                  = ContainerGet(last.heap[last.n], KeepStart, KeepEnd)
            /\ KeepStart = KeepEnd => after.data = <<>>

\* A Vec of two different elements was cut down to its second one.
C31_Witness ==
    /\ last.op = "shrink_container_to_range"
    /\ KeepStart = 1
    /\ KeepEnd = 2
    /\ Len(VecBefore) = 2
    /\ VecBefore[1] # VecBefore[2]
    /\ heap[last.n].data = <<VecBefore[2]>>

\* C32: in every state reachable by any sequence of operations, dereferencing a live
\* view does not panic, and neither does saturating_advance or saturating_retract by
\* any amount: the lookup each of them unwraps succeeds.
C32_NoLookupPanic ==
    \A v \in ViewIds :
        views[v].live =>
            /\ Deref(heap, views[v]).some
            /\ \A n \in ArgVals :
                  /\ SaturatingAdvanceCall(heap, views[v], n).ok
                  /\ SaturatingRetractCall(heap, views[v], n).ok

\* A view narrowed to nothing at the end of a Vec that shrink has compacted: the
\* lookups of deref and of the saturating calls are at the container's last position.
C32_Witness ==
    \E v \in ViewIds :
        /\ views[v].live
        /\ kind = "vec"
        /\ heap[views[v].underlying].data # <<>>
        /\ heap[views[v].underlying].data[1] # FreshData(1)[1]
        /\ views[v].start = ContainerLen(heap[views[v].underlying])
        /\ views[v].end = views[v].start
        /\ Elements(heap, views[v]) = <<>>
        /\ SaturatingAdvanceCall(heap, views[v], UsizeMax).ret = <<>>

\* ------------------------------------------------ arguments up to usize::MAX

\* Index arithmetic: one view of the caller's container made, re-ranged and narrowed
\* with every form of range and with arguments up to usize::MAX, every call recorded.
WidthOps == NarrowOps \cup {"new"}

\* Range bounds at the ends of the container and at usize::MAX, in every form.
WidthBounds ==
    {Unbounded} \cup {Included(x) : x \in {0, MaxLen, UsizeMax}}
                \cup {Excluded(x) : x \in {0, MaxLen, UsizeMax}}

WidthRanges == {RangeOf(sb, eb) : sb \in WidthBounds, eb \in WidthBounds}

InitWidth == InitWith({"boxed"}, WidthOps)

NextWidth ==
    \/ \E a \in AllocIds, r \in WidthRanges : LiveViews(views) = {} /\ New(a, r)
    \/ \E v \in ViewIds : DropView(v)
    \/ \E v \in ViewIds, incr \in ArgVals : OneView /\ Advance(v, incr)
    \/ \E v \in ViewIds, incr \in ArgVals : OneView /\ SaturatingAdvance(v, incr)
    \/ \E v \in ViewIds, decr \in ArgVals : OneView /\ Retract(v, decr)
    \/ \E v \in ViewIds, decr \in ArgVals : OneView /\ SaturatingRetract(v, decr)
    \/ \E v \in ViewIds, index \in ArgVals : OneView /\ SplitOffBefore(v, index)
    \/ \E v \in ViewIds, index \in ArgVals : OneView /\ SplitOffAfter(v, index)
    \/ \E v \in ViewIds, r \in WidthRanges : OneView /\ ChangeRange(v, r)

SpecWidth == InitWidth /\ [][NextWidth]_vars

\* The start and end a range denotes in unbounded integers, clamped to len.
ExactStart(r, len) ==
    CASE r.sb.kind = "Excluded" -> Min(r.sb.x + 1, len)
      [] r.sb.kind = "Included" -> Min(r.sb.x, len)
      [] OTHER -> 0

ExactEnd(r, len) ==
    CASE r.eb.kind = "Excluded" -> Min(r.eb.x, len)
      [] r.eb.kind = "Included" -> Min(r.eb.x + 1, len)
      [] OTHER -> len

\* C33: with usize of bounded width no index computation wraps, for arguments up to
\* usize::MAX: new and change_range resolve an exclusive start or inclusive end x as
\* min(x + 1, length) even for x = usize::MAX; advance, split_off_before and
\* split_off_after return None (and change nothing) when start + index exceeds
\* usize::MAX; retract returns None when decr > end; the saturating variants clamp
\* to end and to start.
C33_NoWrapAround ==
    /\ last.op = "new" =>
          LET len == ContainerLen(last.heap[last.n])
              s == ExactStart(last.r, len)
          IN  /\ PostView.start = s
              /\ PostView.end = Max(s, ExactEnd(last.r, len))
    /\ last.op = "change_range" =>
          LET len == ContainerLen(last.heap[PreView.underlying])
              e == ExactEnd(last.r, len)
          IN  /\ PostView.end = e
              /\ PostView.start = Min(ExactStart(last.r, len), e)
    /\ last.op \in {"advance", "split_off_before", "split_off_after"} =>
          /\ last.ok <=> PreView.start + last.n <= PreView.end
          /\ PreView.start + last.n > UsizeMax =>
                 /\ ~last.ok
                 /\ views = last.views
    /\ last.op = "retract" =>
          /\ last.ok <=> last.n <= PreView.end - PreView.start
          /\ last.n > PreView.end => (~last.ok /\ views = last.views)
    /\ last.op = "saturating_advance" =>
          /\ last.ok
          /\ PostView.start = Min(PreView.start + last.n, PreView.end)
          /\ PostView.end = PreView.end
    /\ last.op = "saturating_retract" =>
          /\ last.ok
          /\ PostView.end = Max(PreView.end - last.n, PreView.start)
          /\ PostView.start = PreView.start
    /\ \A v \in ViewIds :
          views[v].live => (views[v].start \in 0 .. UsizeMax /\ views[v].end \in 0 .. UsizeMax)

\* advance by usize::MAX on a view that does not start at 0: start + incr overflows.
C33_Witness ==
    /\ last.op = "advance"
    /\ last.n = UsizeMax
    /\ PreView.start > 0
    /\ PreView.start < PreView.end
    /\ ~last.ok

\* The position in the container of the element the recorded get_mut call wrote.
WrittenAt == PreView.start + last.n + 1

\* C34: a write through the slice of a successful get_mut changes only container
\* positions inside start..end: the elements outside the view's range, the
\* container's length and the view's start and end are unchanged, and the write shows
\* through the view and through a handle cloned afterwards.
C34_WriteThroughFrame ==
    (last.op = "get_mut" /\ last.ok /\ last.n >= 0) =>
        LET a == PreView.underlying
            before == last.heap[a].data
            after == heap[a].data
        IN  /\ views = last.views
            /\ PreView.start < WrittenAt /\ WrittenAt <= PreView.end
            /\ Len(after) = Len(before)
            /\ \A j \in 1 .. Len(before) :
                  (j <= PreView.start \/ j > PreView.end) => after[j] = before[j]
            /\ \A j \in 1 .. Len(before) : j # WrittenAt => after[j] = before[j]
            /\ after[WrittenAt] = Written
            /\ Elements(heap, PostView)[last.n + 1] = Written
            /\ ArcClone(heap, a)[a].data = after
            /\ \A b \in AllocIds \ {a} : heap[b] = last.heap[b]
            /\ heap[a].strong = last.heap[a].strong

\* The second element of a two-element container written through a view that starts
\* at it: the first element lies outside the view.
C34_Witness ==
    /\ last.op = "get_mut"
    /\ last.ok
    /\ last.n = 0
    /\ PreView.start = 1
    /\ PreView.end = 2
    /\ last.heap[PreView.underlying].data[1] # Written
    /\ heap[PreView.underlying].data = <<last.heap[PreView.underlying].data[1], Written>>

\* The allocations that hold a container.
LiveAllocs(h) == {a \in AllocIds : h[a].strong > 0}

\* What shrink_container_to_range reports for the container and range of the
\* recorded shrink call.
Reported ==
    ShrinkContainerToRange(kind, [data |-> PreBlock.data, spilled |-> PreBlock.spilled],
                           PreView.start, PreView.end)

\* C35: after a successful shrink the view's handle is a newly created allocation
\* with a reference count of exactly one (and no weak handle) that holds the
\* compacted container; the view's range is the one the container reported, or the
\* old one when it reported none; the placeholder has been released: the original
\* allocation was consumed, one was created, nothing else is live or changed.
C35_ShrinkRewraps ==
    (last.op = "shrink" /\ last.ok) =>
        LET n == PostView.underlying
            orig == PreView.underlying
            p == PlaceholderId(last.heap)
        IN  /\ PostView.live
            /\ heap[n].strong = 1
            /\ heap[n].weak = 0
            /\ n = orig \/ IsFree(last.heap, n)
            /\ n # orig => heap[orig].strong = 0
            /\ heap[n].data = Reported.c.data
            /\ Reported.range.some =>
                  (PostView.start = Reported.range.val.start /\ PostView.end = Reported.range.val.end)
            /\ ~Reported.range.some =>
                  (PostView.start = PreView.start /\ PostView.end = PreView.end)
            /\ n # p /\ IsFree(heap, p)
            /\ LiveAllocs(heap) = (LiveAllocs(last.heap) \ {orig}) \cup {n}
            /\ \A a \in AllocIds \ {n, orig} : heap[a] = last.heap[a]
            /\ \A v \in ViewIds \ {last.v} : views[v] = last.views[v]

\* A successful shrink while a weak handle keeps the original block: the view's new
\* allocation is another block, and the container reported a range that ends
\* before the old one.
C35_Witness ==
    /\ last.op = "shrink"
    /\ last.ok
    /\ PostView.underlying # PreView.underlying
    /\ heap[PreView.underlying].weak > 0
    /\ heap[PostView.underlying].strong = 1
    /\ Reported.range.some
    /\ PostView.end < PreView.end

\* C36: equality and hashing of ArcSlice are consistent: whenever two views compare
\* equal they feed the same elements to the hasher, also when they are views of the
\* same container with different ranges.
C36_Original ==
    \A v \in ViewIds, w \in ViewIds :
        (views[v].live /\ views[w].live /\ SliceEq(heap, views[v], views[w])) =>
            SliceHash(heap, views[v]) = SliceHash(heap, views[w])

\* The recorded call is a shrink of a view of a Vec that returned true.
VecShrunk == last.op = "shrink" /\ last.ok /\ kind = "vec"

\* C37: shrink is idempotent on a Vec: right after a shrink that returned true the
\* view spans 0..container length, and a second shrink of the same view returns
\* false and changes neither the container, nor the handle, nor the range.
C37_ShrinkIdempotent ==
    /\ [](VecShrunk =>
            /\ PostView.start = 0
            /\ PostView.end = ContainerLen(heap[PostView.underlying])
            /\ ShrinkCall(kind, heap, PostView) = [ok |-> FALSE, heap |-> heap, it |-> PostView])
    /\ [][(VecShrunk /\ last'.op = "shrink" /\ last'.v = last.v) =>
            /\ ~last'.ok
            /\ heap' = heap
            /\ views' = views]_vars

\* shrink called again on the only view of a Vec that its first shrink compacted to
\* one element: it declines.
C37_Witness ==
    /\ last.op = "shrink"
    /\ ~last.ok
    /\ kind = "vec"
    /\ PreView.start = 0
    /\ PreView.end = 1
    /\ PreBlock.strong = 1
    /\ PreBlock.data # FreshData(1)
    /\ Len(PreBlock.data) = 1
    /\ heap = last.heap
    /\ views = last.views

====
